---- MODULE Spec2Model ----
(***************************************************************************)
(* State-machine model of the clinical-trial chatbot backend:              *)
(*   app.py            the /api/chat and /api/reset_session handlers       *)
(*   chatbot_engine.py ChatbotEngine (history, pronouns, safety, filter,   *)
(*                     synthesis)                                          *)
(*   retriever.py      Retriever (classification, clarification, search,   *)
(*                     fusion)                                             *)
(*   logger.py         ChatLogger (metrics and the per-turn log event)     *)
(*                                                                         *)
(* Python strings are TLA+ strings; Len, SubSeq and \o act on them         *)
(* character by character.  Distances (float scores) are integers in       *)
(* units of 1/10000, so the cutoff 1.4 is 14000.  Timestamps are left out  *)
(* of turns and of the metrics: no code reads them back.                   *)
(***************************************************************************)
EXTENDS Integers, Sequences, FiniteSets, TLC

(***************************************************************************)
(* Python string primitives                                                *)
(***************************************************************************)
\* the cased letters among the characters a string of the model can hold
\* (code points 0 to 255), each lower-case letter under its upper-case one
UpperChars == "ABCDEFGHIJKLMNOPQRSTUVWXYZÀÁÂÃÄÅÆÇÈÉÊËÌÍÎÏÐÑÒÓÔÕÖØÙÚÛÜÝÞ"
LowerChars == "abcdefghijklmnopqrstuvwxyzàáâãäåæçèéêëìíîïðñòóôõöøùúûüýþ"
DigitChars == "0123456789"

CharAt(s, i) == SubSeq(s, i, i)

\* one-character strings of s, as a set
CharsOf(s) == { CharAt(s, i) : i \in 1..Len(s) }

\* str.lower() on the cased letters, as a table
LowerTable ==
    [ c \in CharsOf(UpperChars) |->
        CharAt(LowerChars, CHOOSE i \in 1..Len(UpperChars) : CharAt(UpperChars, i) = c) ]

\* str.lower() of one character
LowerChar(c) == IF c \in DOMAIN LowerTable THEN LowerTable[c] ELSE c

\* the image of s[lo..hi] under a per-character map, by halving
RECURSIVE LowerRange(_, _, _)
LowerRange(s, lo, hi) ==
    IF lo > hi THEN ""
    ELSE IF lo = hi THEN LowerChar(CharAt(s, lo))
    ELSE LET mid == (lo + hi) \div 2
         IN  LowerRange(s, lo, mid) \o LowerRange(s, mid + 1, hi)

\* str.lower()
Lower(s) == LowerRange(s, 1, Len(s))

\* Python's `k in s` on strings
Contains(k, s) ==
    \E i \in 1..(Len(s) - Len(k) + 1) : SubSeq(s, i, i + Len(k) - 1) = k

\* str.endswith
EndsWith(s, k) ==
    Len(k) <= Len(s) /\ SubSeq(s, Len(s) - Len(k) + 1, Len(s)) = k

\* whitespace as str.split() / str.strip() / regex \s see it: space, \t, \n,
\* \r, \f and the code points 0B, 1C, 1D, 1E, 1F, 85 and A0
IsSpace(c) == c \in CharsOf(" \t\n\r\f ")

\* regex \w on str patterns: letters, digits and other alphanumerics, underscore
WordChars ==
    CharsOf(UpperChars) \cup CharsOf(LowerChars) \cup CharsOf(DigitChars) \cup {"_"}
    \cup CharsOf("ª²³µ¹º¼½¾ßÿ")

IsWord(c) == c \in WordChars

\* str.strip()
Strip(s) ==
    LET keep == { i \in 1..Len(s) : ~IsSpace(CharAt(s, i)) }
    IN  IF keep = {} THEN ""
        ELSE LET lo == CHOOSE i \in keep : \A j \in keep : i <= j
                 hi == CHOOSE i \in keep : \A j \in keep : j <= i
             IN  SubSeq(s, lo, hi)

\* shared scanner of str.split() and re.findall(r'\w+'): the maximal runs of
\* characters of the class (word characters, or non-space), left to right
Runs(s, wordClass) ==
    LET inRun  == { i \in 1..Len(s) :
                      IF wordClass THEN IsWord(CharAt(s, i)) ELSE ~IsSpace(CharAt(s, i)) }
        starts == { i \in inRun : (i - 1) \notin inRun }
        stops  == { i \in inRun : (i + 1) \notin inRun }
        nth(S, n) == CHOOSE i \in S : Cardinality({ j \in S : j < i }) = n - 1
    IN  [ n \in 1..Cardinality(starts) |-> SubSeq(s, nth(starts, n), nth(stops, n)) ]

\* str.split() with no argument
Split(s) == Runs(s, FALSE)

\* re.findall(r'\w+', s)
FindWords(s) == Runs(s, TRUE)

\* re.sub(r'[^\w\s]', '', s), by halving
RECURSIVE StripPunctRange(_, _, _)
StripPunctRange(s, lo, hi) ==
    IF lo > hi THEN ""
    ELSE IF lo = hi
    THEN (IF IsWord(CharAt(s, lo)) \/ IsSpace(CharAt(s, lo)) THEN CharAt(s, lo) ELSE "")
    ELSE LET mid == (lo + hi) \div 2
         IN  StripPunctRange(s, lo, mid) \o StripPunctRange(s, mid + 1, hi)

StripPunct(s) == StripPunctRange(s, 1, Len(s))

\* sep.join(parts)
RECURSIVE Join(_, _)
Join(sep, parts) ==
    IF parts = <<>> THEN ""
    ELSE IF Len(parts) = 1 THEN parts[1]
    ELSE parts[1] \o sep \o Join(sep, Tail(parts))

\* any(kw in text for kw in kws) over a list of keywords
AnyIn(kws, text) == \E i \in 1..Len(kws) : Contains(kws[i], text)

\* sum(1 for kw in kws if kw in text)
CountIn(kws, text) == Cardinality({ i \in 1..Len(kws) : Contains(kws[i], text) })

\* s.split(sep) for a non-empty separator: the pieces between the occurrences
\* of sep found left to right from `start`; empty pieces are kept
RECURSIVE SplitSepFrom(_, _, _)
SplitSepFrom(s, sep, start) ==
    LET hits == { i \in start..(Len(s) - Len(sep) + 1) : SubSeq(s, i, i + Len(sep) - 1) = sep }
    IN  IF hits = {} THEN <<SubSeq(s, start, Len(s))>>
        ELSE LET i == CHOOSE h \in hits : \A g \in hits : h <= g
             IN  <<SubSeq(s, start, i - 1)>> \o SplitSepFrom(s, sep, i + Len(sep))

SplitSep(s, sep) == SplitSepFrom(s, sep, 1)

\* s[:n]
Prefix(s, n) == SubSeq(s, 1, IF Len(s) < n THEN Len(s) ELSE n)

\* the elements of a sequence that satisfy Test, in order
RECURSIVE SelectSeqIdx(_, _, _)
SelectSeqIdx(seq, keep, i) ==
    IF i > Len(seq) THEN <<>>
    ELSE (IF i \in keep THEN <<seq[i]>> ELSE <<>>) \o SelectSeqIdx(seq, keep, i + 1)

Filter(seq, keep) == SelectSeqIdx(seq, keep, 1)

\* the distinct elements of a sequence in order of first occurrence
Unique(seq) == Filter(seq, { i \in 1..Len(seq) : \A j \in 1..(i - 1) : seq[j] # seq[i] })

None == "None"

(***************************************************************************)
(* Chunk records (data_loader.py).  structured_data is the row dict as a   *)
(* sequence of <<key, value>> pairs in insertion order; a chunk without    *)
(* the key has the empty sequence (result.get('structured_data', {})).     *)
(***************************************************************************)
\* dict.get(key, default) on a sequence of pairs: the last pair of a key wins
DictGet(d, key, default) ==
    LET hits == { i \in 1..Len(d) : d[i][1] = key }
    IN  IF hits = {} THEN default
        ELSE d[CHOOSE i \in hits : \A j \in hits : j <= i][2]

XlsxName == "Pharma_Clinical_Trial_AllDrugs.xlsx"
DocxName == "Pharma_Clinical_Trial_Notes.docx"

(***************************************************************************)
(* retriever.py                                                            *)
(***************************************************************************)
excel_keywords ==
    << "dose", "dosing", "dosage", "mg", "frequency",
       "adverse event", "ae", "aes", "side effect",
       "severity", "severe", "moderate", "mild",
       "outcome", "resolved", "ongoing",
       "indication", "population", "reported" >>

doc_keywords ==
    << "caution", "label", "note", "guidance", "monitoring",
       "warning", "recommendation", "context", "trial summary",
       "background", "description" >>

\* a classifier whose ties go to the document corpus
classify_query_ties_doc(query) ==
    LET query_lower == Lower(query)
        excel_score == CountIn(excel_keywords, query_lower)
        doc_score   == CountIn(doc_keywords, query_lower)
    IN  IF doc_score >= excel_score THEN "doc"
        ELSE "excel"

\* a classifier that gives each excel keyword twice the weight of a doc keyword
classify_query_weighted(query) ==
    LET query_lower == Lower(query)
        excel_score == 2 * CountIn(excel_keywords, query_lower)
        doc_score   == CountIn(doc_keywords, query_lower)
    IN  IF doc_score > excel_score THEN "doc"
        ELSE IF excel_score > doc_score THEN "excel"
        ELSE "both"

classify_query(query) ==
    LET query_lower == Lower(query)
        excel_score == CountIn(excel_keywords, query_lower)
        doc_score   == CountIn(doc_keywords, query_lower)
    IN  IF doc_score > excel_score THEN "doc"
        ELSE IF excel_score > doc_score THEN "excel"
        ELSE "both"

needs_drug_keywords ==
    << "dose", "dosing", "dosage", "adverse event", "ae", "aes",
       "severity", "outcome", "caution", "side effect" >>

drug_list ==
    << "imatinib", "pembrolizumab", "metformin", "nivolumab",
       "trastuzumab", "atezolizumab", "durvalumab", "osimertinib" >>

indication_list == << "melanoma", "nsclc", "diabetes", "breast cancer", "cml" >>

general_medical_terms == << "renal", "kidney", "hepatic", "liver", "impairment" >>

ClarificationPrompt == "Could you specify the drug name to help me answer accurately?"

\* the drug-name test of needs_clarification (line 95)
has_drug_name(query_lower) == AnyIn(drug_list, query_lower)

\* needs_clarification without its general-medical exception
is_general_medical_dropped(query_lower) == FALSE

\* the general-medical exception of needs_clarification (line 104)
is_general_medical(query_lower) == AnyIn(general_medical_terms, query_lower)

\* returns <<needs_clarification, message>>
needs_clarification(query) ==
    LET query_lower      == Lower(query)
        has_drug_keyword == AnyIn(needs_drug_keywords, query_lower)
        has_indication   == AnyIn(indication_list, query_lower)
    IN  IF has_drug_keyword
           /\ ~(has_drug_name(query_lower) \/ has_indication)
           /\ ~is_general_medical(query_lower)
        THEN <<TRUE, ClarificationPrompt>>
        ELSE <<FALSE, "">>

\* np.argsort(dists): the positions of dists by ascending distance. It is
\* called without kind='stable': its default sort does not fix the order of
\* equal distances, so for ties every ascending order of the positions is an
\* outcome
ArgSorts(dists) ==
    { order \in [ 1..Len(dists) -> 1..Len(dists) ] :
        /\ \A a, b \in 1..Len(dists) : a # b => order[a] # order[b]
        /\ \A a, b \in 1..Len(dists) : a < b => dists[order[a]] <= dists[order[b]] }

\* the outcome of np.argsort(dists) that keeps equal distances in insertion
\* order: the only outcome when no two distances are equal
ArgSort(dists) ==
    CHOOSE order \in ArgSorts(dists) :
        \A a, b \in 1..Len(dists) : (a < b /\ dists[order[a]] = dists[order[b]]) => order[a] < order[b]

\* an embedding matrix attribute: None, or the np.array of one row per chunk
\* (the vectors themselves are the embedding backend's)
NoEmbeddings == [ present |-> FALSE, rows |-> 0 ]
Embeddings(n) == [ present |-> TRUE, rows |-> n ]

\* one corpus of search: the top_k nearest chunks, each a copy with its score
search_corpus(chunks, dists, top_k) ==
    LET order   == ArgSort(dists)
        indices == SubSeq(order, 1, IF Len(order) < top_k THEN Len(order) ELSE top_k)
    IN  [ n \in 1..Len(indices) |->
            [ type |-> chunks[indices[n]].type,
              content |-> chunks[indices[n]].content,
              structured_data |-> chunks[indices[n]].structured_data,
              score |-> dists[indices[n]],
              source_type |-> None ] ]

\* returns <<doc_results, excel_results>>; ddists and edists are the squared L2
\* distances of the query embedding to each stored vector
search(dchunks, dembed, echunks, eembed, ddists, edists, top_k, source_preference) ==
    << IF source_preference \in {"doc", "both"} /\ dembed.present /\ dembed.rows > 0
       THEN search_corpus(dchunks, ddists, top_k) ELSE <<>>,
       IF source_preference \in {"excel", "both"} /\ eembed.present /\ eembed.rows > 0
       THEN search_corpus(echunks, edists, top_k) ELSE <<>> >>

\* the results search can return for one corpus, one for each argsort outcome
search_corpus_outcomes(chunks, dists, top_k) ==
    { [ n \in 1..(IF Len(dists) < top_k THEN Len(dists) ELSE top_k) |->
          [ type |-> chunks[order[n]].type,
            content |-> chunks[order[n]].content,
            structured_data |-> chunks[order[n]].structured_data,
            score |-> dists[order[n]],
            source_type |-> None ] ] : order \in ArgSorts(dists) }

\* the pairs <<doc_results, excel_results>> search can return
search_outcomes(dchunks, dembed, echunks, eembed, ddists, edists, top_k, source_preference) ==
    { << doc_results, excel_results >> :
        doc_results \in
            (IF source_preference \in {"doc", "both"} /\ dembed.present /\ dembed.rows > 0
             THEN search_corpus_outcomes(dchunks, ddists, top_k) ELSE { <<>> }),
        excel_results \in
            (IF source_preference \in {"excel", "both"} /\ eembed.present /\ eembed.rows > 0
             THEN search_corpus_outcomes(echunks, edists, top_k) ELSE { <<>> }) }

\* list.sort(key=score): stable insertion of x behind every element not greater
RECURSIVE SortByScore(_)
SortByScore(seq) ==
    IF seq = <<>> THEN <<>>
    ELSE LET rest == SortByScore(SubSeq(seq, 1, Len(seq) - 1))
             x    == seq[Len(seq)]
             k    == Cardinality({ i \in 1..Len(rest) : rest[i].score <= x.score })
         IN  SubSeq(rest, 1, k) \o <<x>> \o SubSeq(rest, k + 1, Len(rest))

\* a fusion that appends the doc results behind the excel results before the sort
get_best_results_excel_first(doc_results, excel_results, max_results) ==
    LET tagged(rs, t) == [ i \in 1..Len(rs) |-> [rs[i] EXCEPT !.source_type = t] ]
        all_results == SortByScore(tagged(excel_results, "excel") \o tagged(doc_results, "doc"))
        selected    == SubSeq(all_results, 1,
                              IF Len(all_results) < max_results THEN Len(all_results) ELSE max_results)
        doc_count   == Cardinality({ i \in 1..Len(selected) : selected[i].source_type = "doc" })
        excel_count == Cardinality({ i \in 1..Len(selected) : selected[i].source_type = "excel" })
    IN  IF selected = <<>> THEN << <<>>, "none" >>
        ELSE IF doc_count > 0 /\ excel_count > 0 THEN <<selected, "both">>
        ELSE IF doc_count > 0 THEN <<selected, "doc">>
        ELSE <<selected, "excel">>

\* returns <<selected, primary_source>>
get_best_results(doc_results, excel_results, max_results) ==
    LET tagged(rs, t) == [ i \in 1..Len(rs) |-> [rs[i] EXCEPT !.source_type = t] ]
        all_results == SortByScore(tagged(doc_results, "doc") \o tagged(excel_results, "excel"))
        selected    == SubSeq(all_results, 1,
                              IF Len(all_results) < max_results THEN Len(all_results) ELSE max_results)
        doc_count   == Cardinality({ i \in 1..Len(selected) : selected[i].source_type = "doc" })
        excel_count == Cardinality({ i \in 1..Len(selected) : selected[i].source_type = "excel" })
    IN  IF selected = <<>> THEN << <<>>, "none" >>
        ELSE IF doc_count > 0 /\ excel_count > 0 THEN <<selected, "both">>
        ELSE IF doc_count > 0 THEN <<selected, "doc">>
        ELSE <<selected, "excel">>


(***************************************************************************)
(* chatbot_engine.py                                                       *)
(***************************************************************************)
max_history == 5

\* _get_history: the session table after the lookup, which creates the entry
get_history(ch, session_id) ==
    IF session_id \in DOMAIN ch THEN ch ELSE ch @@ (session_id :> <<>>)

\* the turn record _add_to_history appends
Turn(user_msg, assistant_msg, sources_used) ==
    [ user_message |-> user_msg, assistant_message |-> assistant_msg,
      sources_used |-> sources_used ]

\* a history that evicts its newest entry: history.pop() for history.pop(0)
truncate_newest(history) ==
    IF Len(history) > max_history THEN SubSeq(history, 1, Len(history) - 1) ELSE history

\* history.pop(0) once the list is longer than max_history
truncate(history) ==
    IF Len(history) > max_history THEN Tail(history) ELSE history

\* an engine that keeps one history for all sessions: the turn is appended to
\* every stored session
add_to_history_shared(ch, session_id, user_msg, assistant_msg, sources_used) ==
    LET ch1 == get_history(ch, session_id)
    IN  [ s \in DOMAIN ch1 |->
            truncate(Append(ch1[s], Turn(user_msg, assistant_msg, sources_used))) ]

\* _add_to_history: the session table after the append
add_to_history(ch, session_id, user_msg, assistant_msg, sources_used) ==
    LET ch1 == get_history(ch, session_id)
    IN  [ch1 EXCEPT ![session_id] =
            truncate(Append(ch1[session_id], Turn(user_msg, assistant_msg, sources_used)))]

pronouns == << "that", "it", "this", "them" >>

drugs ==
    << "imatinib", "pembrolizumab", "metformin", "nivolumab",
       "trastuzumab", "atezolizumab", "durvalumab", "osimertinib" >>

\* a pronoun test on substrings: any(pronoun in query_lower for pronoun in pronouns)
has_pronoun_substring(query) == AnyIn(pronouns, Lower(query))

\* any(pronoun in query_lower.split() for pronoun in pronouns)
has_pronoun(query) ==
    LET tokens == Split(Lower(query))
    IN  \E p \in 1..Len(pronouns) : \E t \in 1..Len(tokens) : tokens[t] = pronouns[p]

\* a referent search that reads the oldest stored turn: history[0] for history[-1]
referent_turn_oldest(history) == history[1]

\* the turn whose text _resolve_pronouns scans for a drug name
referent_turn(history) == history[Len(history)]

\* a handler that hands the query on as typed
resolve_pronouns_skipped(ch, query, session_id) == query

\* _resolve_pronouns: the query handed on (the entry creation is get_history)
resolve_pronouns(ch, query, session_id) ==
    LET history == get_history(ch, session_id)[session_id]
    IN  IF history = <<>> THEN query
        ELSE IF has_pronoun(query)
        THEN LET last_turn == referent_turn(history)
                 last_msg  == Lower(last_turn.user_message \o " " \o last_turn.assistant_message)
                 found     == { d \in 1..Len(drugs) : Contains(Lower(drugs[d]), last_msg) }
             IN  IF found = {} THEN query
                 ELSE query \o " (referring to "
                        \o drugs[CHOOSE d \in found : \A e \in found : d <= e] \o ")"
        ELSE query

medical_advice_keywords ==
    << "should i take", "can i take", "prescribe", "recommend taking",
       "what should i do", "treatment plan", "medical advice",
       "diagnose", "can i stop", "should i stop" >>

clinical_decision_keywords == << "change my dose", "switch to", "should i stop" >>

harmful_keywords ==
    << "bomb", "suicide", "kill", "murder", "illegal", "hack", "poison",
       "weapon", "terror", "drug abuse", "high", "recreational" >>

MedicalAdviceRefusal ==
    "I cannot provide medical advice or prescriptive recommendations. "
    \o "Please consult the official drug label documentation or a qualified "
    \o "healthcare professional for clinical decisions."

PolicyRefusal == "I cannot fulfill this request as it violates safety policies."

\* returns <<is_unsafe, safety_msg>>
check_safety_guardrails(query) ==
    LET query_lower == Lower(query)
    IN  IF AnyIn(medical_advice_keywords \o clinical_decision_keywords, query_lower)
        THEN <<TRUE, MedicalAdviceRefusal>>
        ELSE IF AnyIn(harmful_keywords, query_lower)
        THEN <<TRUE, PolicyRefusal>>
        ELSE <<FALSE, None>>

stop_words ==
    { "what", "is", "the", "for", "in", "of", "a", "an", "to", "and", "or", "are",
      "about", "tell", "me", "please", "provide", "give", "how", "much", "can", "i",
      "take", "should", "with", "my", "does", "have", "any", "list", "show", "details",
      "information", "regarding", "suggest", "describe", "explain", "check",
      "mentioned", "mention", "guidance", "guide", "label", "discussed", "discuss",
      "reference", "notes", "note", "described", "finding", "findings" }

\* the synonym table of _is_relevant: the synonyms of a term, <<>> without entry
synonyms(term) ==
    CASE term = "side"       -> << "adverse", "events", "ae", "reaction", "toxicity", "safety" >>
      [] term = "effect"     -> << "adverse", "events", "ae", "reaction", "outcome", "efficacy" >>
      [] term = "effects"    -> << "adverse", "events", "ae", "reaction", "outcomes" >>
      [] term = "adverse"    -> << "side", "effect", "toxicity", "safety" >>
      [] term = "renal"      -> << "kidney", "nephro", "crcl", "creatinine", "gfr" >>
      [] term = "kidney"     -> << "renal", "nephro" >>
      [] term = "hepatic"    -> << "liver", "bilirubin", "alt", "ast" >>
      [] term = "liver"      -> << "hepatic" >>
      [] term = "dose"       -> << "dosage", "dosing", "schedule", "amount", "administer", "administration" >>
      [] term = "dosage"     -> << "dose", "dosing", "schedule", "amount", "administration" >>
      [] term = "guidance"   -> << "recommendation", "instruction", "protocol", "note", "label", "prescribing" >>
      [] term = "monitoring" -> << "check", "assess", "measure", "test", "exam" >>
      [] term = "label"      -> << "prescribing", "guidance", "smpc", "uspi", "package" >>
      [] term = "indication" -> << "usage", "treat", "diagnosis", "condition", "disease" >>
      [] OTHER               -> <<>>

\* the key terms of a query: its \w+ tokens, lower-cased, without stop words
key_terms(query) ==
    LET query_terms == FindWords(Lower(query))
    IN  { query_terms[i] : i \in 1..Len(query_terms) } \ stop_words

\* the searchable text _is_relevant builds from a result
result_text(result) ==
    LET data == result.structured_data
    IN  Lower(Lower(result.content) \o " " \o DictGet(data, "drug_name", "") \o " "
              \o DictGet(data, "indication", "") \o " " \o DictGet(data, "ae_terms", "") \o " "
              \o DictGet(data, "dose", "") \o " " \o DictGet(data, "severity", ""))

\* one key term against the searchable text: direct, plural/singular, synonym
term_matches(term, text) ==
    \/ Contains(term, text)
    \/ EndsWith(term, "s") /\ Contains(SubSeq(term, 1, Len(term) - 1), text)
    \/ Contains(term \o "s", text)
    \/ AnyIn(synonyms(term), text)

is_relevant(query, result) ==
    LET terms == key_terms(query)
        text  == result_text(result)
    IN  IF terms = {} THEN TRUE
        ELSE Cardinality({ t \in terms : term_matches(t, text) }) > 0

greetings ==
    { "hi", "hello", "hey", "greetings", "good morning", "good afternoon",
      "good evening", "thanks", "thank you" }

GreetingReply ==
    "Hello! I am your Clinical Trial Assistant. How can I help you regarding "
    \o "drug dosages, adverse events, or clinical contexts?"

is_greeting(query) == Strip(StripPunct(Lower(query))) \in greetings


Min(a, b) == IF a < b THEN a ELSE b

\* the query terms of _extract_relevant_snippet: words longer than three letters
snippet_terms(query) ==
    LET words == FindWords(Lower(query))
    IN  Filter(words, { i \in 1..Len(words) : Len(words[i]) > 3 })

\* the window of up to three sentences that starts at sentence i
window(sentences, i) == Join(". ", SubSeq(sentences, i, Min(i + 2, Len(sentences))))

\* the number of query terms that occur in a window
term_count(query_terms, window_lower) ==
    Cardinality({ t \in 1..Len(query_terms) : Contains(query_terms[t], window_lower) })

\* the first window whose count exceeds every earlier one and is not exceeded later
best_windows(count) ==
    { i \in DOMAIN count :
        /\ count[i] > 0
        /\ \A j \in DOMAIN count : count[j] <= count[i]
        /\ \A j \in 1..(i - 1) : count[j] < count[i] }

\* the snippet chosen from the window counts
chosen_snippet(content, sentences, best) ==
    IF best # {} THEN "..." \o window(sentences, CHOOSE i \in best : TRUE) \o "..."
    ELSE Prefix(content, 500)

\* the scan of _extract_relevant_snippet over the sentences
scanned_snippet(content, sentences, query_terms) ==
    IF query_terms = <<>> THEN Prefix(content, 500)
    ELSE chosen_snippet(content, sentences,
            best_windows([ i \in 1..Len(sentences) |->
                             term_count(query_terms, Lower(window(sentences, i))) ]))

\* _extract_relevant_snippet: the densest window of three sentences
extract_relevant_snippet(content, query) ==
    scanned_snippet(content, SplitSep(content, ". "), snippet_terms(query))

\* the unique truthy values of a field over the records of one drug, as
\* ', '.join iterates them. Python collects them in a set, whose iteration
\* order depends on the interpreter's hash seed: every order of the values is
\* an outcome
field_values(records, key) ==
    LET vals == [ i \in 1..Len(records) |-> DictGet(records[i], key, "") ]
        uniq == Unique(Filter(vals, { i \in 1..Len(vals) : vals[i] # "" }))
    IN  { [ i \in 1..Len(uniq) |-> uniq[order[i]] ] :
            order \in { f \in [ 1..Len(uniq) -> 1..Len(uniq) ] :
                          \A a, b \in 1..Len(uniq) : a # b => f[a] # f[b] } }

\* the four intent flags of _format_excel_results
show_dose(query_lower) ==
    Contains("dose", query_lower) \/ Contains("dosing", query_lower) \/ Contains("dosage", query_lower)
show_ae(query_lower) == AnyIn(<< "ae", "adverse", "side effect" >>, query_lower)
show_severity(query_lower) == Contains("severity", query_lower) \/ Contains("severe", query_lower)
show_outcome(query_lower) == Contains("outcome", query_lower) \/ Contains("resolved", query_lower)

\* drug blocks that list every field that has a value, whatever the query
excel_block_all_fields(drug, records, query_lower) ==
    LET line(label, vals) ==
            IF vals # <<>> THEN <<"- " \o label \o ": " \o Join(", ", vals)>> ELSE <<>>
    IN  { Join("\n", << "**" \o drug \o "**:" >>
                       \o line("Indication", indications)
                       \o line("Dose", doses)
                       \o line("Adverse Events", aes)
                       \o line("Severity", severities)
                       \o line("Outcome", outcomes)) :
            indications \in field_values(records, "indication"),
            doses \in field_values(records, "dose"),
            aes \in field_values(records, "ae_terms"),
            severities \in field_values(records, "severity"),
            outcomes \in field_values(records, "outcome") }

\* one drug block of _format_excel_results: the texts it can have, one for
\* each iteration order of the five value sets
excel_block(drug, records, query_lower) ==
    LET line(label, vals, shown) ==
            IF vals # <<>> /\ shown THEN <<"- " \o label \o ": " \o Join(", ", vals)>> ELSE <<>>
        no_intent == ~(show_dose(query_lower) \/ show_ae(query_lower)
                       \/ show_severity(query_lower) \/ show_outcome(query_lower))
    IN  { Join("\n", << "**" \o drug \o "**:" >>
                       \o line("Indication", indications, TRUE)
                       \o line("Dose", doses, show_dose(query_lower))
                       \o line("Adverse Events", aes, show_ae(query_lower))
                       \o line("Severity", severities, show_severity(query_lower))
                       \o line("Outcome", outcomes, show_outcome(query_lower))
                       \o line("Dose", doses, no_intent)
                       \o line("Adverse Events", aes, no_intent)
                       \o line("Severity", severities, no_intent)) :
            indications \in field_values(records, "indication"),
            doses \in field_values(records, "dose"),
            aes \in field_values(records, "ae_terms"),
            severities \in field_values(records, "severity"),
            outcomes \in field_values(records, "outcome") }

\* _format_excel_results: one block per drug of the top three results; the
\* lists of blocks it can return
format_excel_results(results, query) ==
    LET query_lower == Lower(query)
        top         == SubSeq(results, 1, Min(3, Len(results)))
        datas       == [ i \in 1..Len(top) |-> top[i].structured_data ]
        drug_of(d)  == DictGet(d, "drug_name", "Unknown")
        drug_names  == Unique([ i \in 1..Len(datas) |-> drug_of(datas[i]) ])
        records(g)  == Filter(datas, { i \in 1..Len(datas) : drug_of(datas[i]) = g })
        blocks(n)   == excel_block(drug_names[n], records(drug_names[n]), query_lower)
    IN  { formatted \in [ 1..Len(drug_names) -> UNION { blocks(n) : n \in 1..Len(drug_names) } ] :
            \A n \in 1..Len(drug_names) : formatted[n] \in blocks(n) }

\* the block of one doc result: <<>> when it renders nothing
doc_block(result, query) ==
    IF result.type = "table"
    THEN LET structured == result.structured_data
             truthy == Filter(structured, { i \in 1..Len(structured) : structured[i][2] # "" })
             parts  == [ i \in 1..Len(truthy) |-> "**" \o truthy[i][1] \o "**: " \o truthy[i][2] ]
         IN  IF parts # <<>> THEN <<Join("\n", parts)>> ELSE <<>>
    ELSE IF result.content # ""
         THEN <<extract_relevant_snippet(result.content, query)>>
         ELSE <<>>

RECURSIVE Flatten(_)
Flatten(seqs) == IF seqs = <<>> THEN <<>> ELSE Head(seqs) \o Flatten(Tail(seqs))

\* _format_doc_results: the blocks of the top two doc results
format_doc_results(results, query) ==
    LET top == SubSeq(results, 1, Min(2, Len(results)))
    IN  Flatten([ i \in 1..Len(top) |-> doc_block(top[i], query) ])

ScoreCutoff == 14000

NoInfoReply ==
    "I apologize, but I couldn't find relevant information regarding your "
    \o "query in the provided clinical trial documents."

FallbackReply == "I don't know based on the available data."

\* a score filter whose cutoff is inclusive
score_filter_inclusive(retrieved_results) ==
    Filter(retrieved_results,
           { i \in 1..Len(retrieved_results) : retrieved_results[i].score <= ScoreCutoff })

\* step 1 of the relevance filter: the score cutoff
score_filter(retrieved_results) ==
    Filter(retrieved_results,
           { i \in 1..Len(retrieved_results) : retrieved_results[i].score < ScoreCutoff })

\* a relevance filter that hands its survivors over last first
relevance_filter_reversed(query, retrieved_results) ==
    LET score_filtered == score_filter(retrieved_results)
        kept == Filter(score_filtered,
                       { i \in 1..Len(score_filtered) : is_relevant(query, score_filtered[i]) })
    IN  [ i \in 1..Len(kept) |-> kept[Len(kept) + 1 - i] ]

\* the relevance filter of generate_response: score cutoff, then lexical check
relevance_filter(query, retrieved_results) ==
    LET score_filtered == score_filter(retrieved_results)
    IN  Filter(score_filtered,
            { i \in 1..Len(score_filtered) : is_relevant(query, score_filtered[i]) })

\* the calls of generate_response up to the end of the filter: _is_relevant is
\* called once for each result under the score cutoff
filter_calls(retrieved_results) ==
    << "_check_safety_guardrails", "_is_greeting" >>
    \o [ i \in 1..Len(score_filter(retrieved_results)) |-> "_is_relevant" ]

\* the reply of the safety branch and what it records
safety_branch(ch, query, safety_msg, session_id) ==
    [ response |-> safety_msg, source_citation |-> "none", relevant_count |-> 0,
      conversation_history |-> add_to_history(ch, session_id, query, safety_msg, "none"),
      calls |-> << "_check_safety_guardrails", "_add_to_history" >> ]

\* a greeting branch that returns without recording the turn
greeting_branch_unrecorded(ch, query, session_id) ==
    [ response |-> GreetingReply, source_citation |-> "none", relevant_count |-> 0,
      conversation_history |-> get_history(ch, session_id),
      calls |-> << "_check_safety_guardrails", "_is_greeting" >> ]

\* the reply of the greeting branch and what it records
greeting_branch(ch, query, session_id) ==
    [ response |-> GreetingReply, source_citation |-> "none", relevant_count |-> 0,
      conversation_history |-> add_to_history(ch, session_id, query, GreetingReply, "none"),
      calls |-> << "_check_safety_guardrails", "_is_greeting", "_add_to_history" >> ]

\* a no-results reply that still cites the document file
no_results_branch_cited(ch, query, retrieved_results, session_id) ==
    [ response |-> NoInfoReply, source_citation |-> DocxName, relevant_count |-> 0,
      conversation_history |-> add_to_history(ch, session_id, query, NoInfoReply, DocxName),
      calls |-> filter_calls(retrieved_results) \o << "_add_to_history" >> ]

\* the reply when nothing survives the relevance filter
no_results_branch(ch, query, retrieved_results, session_id) ==
    [ response |-> NoInfoReply, source_citation |-> "none", relevant_count |-> 0,
      conversation_history |-> add_to_history(ch, session_id, query, NoInfoReply, "none"),
      calls |-> filter_calls(retrieved_results) \o << "_add_to_history" >> ]

\* the record generate_response returns from its last branch (lines 323-335)
synthesized(ch, query, session_id, called, relevant_count, response, source_citation) ==
    [ response |-> response, source_citation |-> source_citation,
      relevant_count |-> relevant_count,
      conversation_history |-> add_to_history(ch, session_id, query, response, source_citation),
      calls |-> called \o << "_add_to_history" >> ]

\* lines 320-328: the reply joined from the parts, or the fallback; the
\* citation joined from the sources
compose(ch, query, session_id, called, relevant_count, response_parts, sources_used) ==
    synthesized(ch, query, session_id, called, relevant_count,
        IF response_parts # <<>> THEN Join("\n\n", response_parts) ELSE FallbackReply,
        IF response_parts # <<>> /\ sources_used # <<>> THEN Join(", ", sources_used) ELSE "none")

\* lines 306-318: the parts and the sources of the two result groups;
\* sorted(sources_used) puts the xlsx name before the docx name. One record
\* for each list of blocks _format_excel_results can return
synthesize(ch, query, retrieved_results, session_id, relevant_count, excel_results, doc_results) ==
    { compose(ch, query, session_id,
          filter_calls(retrieved_results)
              \o (IF excel_results # <<>> THEN << "_format_excel_results" >> ELSE <<>>)
              \o (IF doc_results # <<>> THEN << "_format_doc_results" >> ELSE <<>>),
          relevant_count,
          excel_parts
              \o (IF doc_results # <<>> THEN format_doc_results(doc_results, query) ELSE <<>>),
          (IF excel_results # <<>> THEN <<XlsxName>> ELSE <<>>)
              \o (IF doc_results # <<>> THEN <<DocxName>> ELSE <<>>)) :
        excel_parts \in (IF excel_results # <<>>
                         THEN format_excel_results(excel_results, query) ELSE { <<>> }) }

\* the replies built from the surviving results (lines 302-335)
synthesis_branch(ch, query, retrieved_results, relevant_results, session_id) ==
    synthesize(ch, query, retrieved_results, session_id, Len(relevant_results),
        Filter(relevant_results,
               { i \in 1..Len(relevant_results) : relevant_results[i].source_type = "excel" }),
        Filter(relevant_results,
               { i \in 1..Len(relevant_results) : relevant_results[i].source_type = "doc" }))

\* generate_response from the relevance filter on (lines 285-335)
filtered_response(ch, query, retrieved_results, relevant_results, session_id) ==
    IF relevant_results = <<>>
    THEN { no_results_branch(ch, query, retrieved_results, session_id) }
    ELSE synthesis_branch(ch, query, retrieved_results, relevant_results, session_id)

\* generate_response after the safety check (lines 276-335)
safe_response(ch, query, retrieved_results, session_id) ==
    IF is_greeting(query) THEN { greeting_branch(ch, query, session_id) }
    ELSE filtered_response(ch, query, retrieved_results,
                           relevance_filter(query, retrieved_results), session_id)

\* the safety check of generate_response and what follows it (lines 270-274)
checked_response(ch, query, retrieved_results, session_id, safety) ==
    IF safety[1] THEN { safety_branch(ch, query, safety[2], session_id) }
    ELSE safe_response(ch, query, retrieved_results, session_id)

\* generate_response: the records it can return, each [response,
\* source_citation], the session table it leaves, the engine methods it called,
\* in order, and len(relevant_results) where the filter ran; more than one only
\* where a drug block joins a set of several values
generate_response(ch, query, retrieved_results, primary_source, session_id) ==
    checked_response(ch, query, retrieved_results, session_id, check_safety_guardrails(query))


(***************************************************************************)
(* logger.py                                                               *)
(***************************************************************************)
EmptyMetrics ==
    [ total_turns |-> 0, doc_queries |-> 0, excel_queries |-> 0, both_queries |-> 0,
      unknown_responses |-> 0, clarifications_asked |-> 0, safety_refusals |-> 0,
      sessions |-> << >> ]

Bump(b) == IF b THEN 1 ELSE 0

\* a logger that tests the source name by substring: a turn citing both files
\* also counts as a doc turn and as an excel turn
log_query_by_substring(m, session_id, source_used, is_clarification, is_unknown, is_safety_refusal) ==
    LET sessions1 == IF session_id \in DOMAIN m.sessions THEN m.sessions
                     ELSE m.sessions @@ (session_id :> 0)
    IN  [ total_turns          |-> m.total_turns + 1,
          clarifications_asked |-> m.clarifications_asked + Bump(is_clarification),
          unknown_responses    |-> m.unknown_responses + Bump(is_unknown),
          safety_refusals      |-> m.safety_refusals + Bump(is_safety_refusal),
          doc_queries   |-> m.doc_queries + Bump(Contains("docx", source_used)),
          excel_queries |-> m.excel_queries + Bump(Contains("xlsx", source_used)),
          both_queries  |-> m.both_queries
                            + Bump(Contains("docx", source_used) /\ Contains("xlsx", source_used)),
          sessions |-> [sessions1 EXCEPT ![session_id] = @ + 1] ]

\* ChatLogger.log_query: the metrics after one logged turn; sessions maps a
\* session id to its turn_count
log_query(m, session_id, source_used, is_clarification, is_unknown, is_safety_refusal) ==
    LET sessions1 == IF session_id \in DOMAIN m.sessions THEN m.sessions
                     ELSE m.sessions @@ (session_id :> 0)
    IN  [ total_turns          |-> m.total_turns + 1,
          clarifications_asked |-> m.clarifications_asked + Bump(is_clarification),
          unknown_responses    |-> m.unknown_responses + Bump(is_unknown),
          safety_refusals      |-> m.safety_refusals + Bump(is_safety_refusal),
          doc_queries   |-> m.doc_queries + Bump(source_used = DocxName),
          excel_queries |-> m.excel_queries
                            + Bump(source_used # DocxName /\ source_used = XlsxName),
          both_queries  |-> m.both_queries
                            + Bump(source_used # DocxName /\ source_used # XlsxName
                                   /\ Contains("docx", source_used) /\ Contains("xlsx", source_used)),
          sessions |-> [sessions1 EXCEPT ![session_id] = @ + 1] ]

\* ChatLogger._load_metrics: the metrics ChatLogger() starts from. They are
\* the defaults when logs/metrics.json is absent or unreadable, else what an
\* earlier process saved there with its last logged turn; here an earlier
\* process that logged one spreadsheet turn of session s1
load_metrics ==
    { EmptyMetrics, log_query(EmptyMetrics, "s1", XlsxName, FALSE, FALSE, FALSE) }

\* the structured event log_query writes with logger.info
LogEvent(session_id, user_message, source_used, retrieved_count, is_clarification, is_unknown, is_safety_refusal) ==
    [ logged |-> TRUE, session_id |-> session_id, user_message |-> Prefix(user_message, 100),
      source_used |-> source_used, retrieved_count |-> retrieved_count,
      is_clarification |-> is_clarification, is_unknown |-> is_unknown,
      is_safety_refusal |-> is_safety_refusal ]

\* ChatLogger.get_metrics_summary
get_metrics_summary(m) ==
    [ total_turns |-> m.total_turns,
      source_usage |-> [ doc_only |-> m.doc_queries, excel_only |-> m.excel_queries,
                         both |-> m.both_queries ],
      unknown_responses |-> m.unknown_responses,
      clarifications_asked |-> m.clarifications_asked,
      safety_refusals |-> m.safety_refusals,
      unique_sessions |-> Cardinality(DOMAIN m.sessions) ]

(***************************************************************************)
(* app.py                                                                  *)
(***************************************************************************)
\* the flags chat derives from the reply text (lines 172-173)
is_unknown_reply(assistant_message) ==
    Contains("don't know based on the available data", assistant_message)

is_safety_refusal_reply(assistant_message) ==
    Contains("cannot provide medical advice", assistant_message)

\* what one request leaves behind: the two stores, the response returned, the
\* event logged and the component methods called, in order
Outcome(ch, m, resp, ev, called, enhanced, relevant_count) ==
    [ conversation_history |-> ch, metrics |-> m, response |-> resp, log_event |-> ev,
      calls |-> called, enhanced_query |-> enhanced, relevant_count |-> relevant_count ]

NotLogged == [ logged |-> FALSE ]

\* a rejection that still counts the request as a turn
rejected_outcome_counted(ch, m) ==
    Outcome(ch, [m EXCEPT !.total_turns = @ + 1],
            [ status |-> 400, detail |-> "User message cannot be empty" ],
            NotLogged, << >>, "", 0)

\* chat, lines 120-121: the empty message
rejected_outcome(ch, m) ==
    Outcome(ch, m, [ status |-> 400, detail |-> "User message cannot be empty" ],
            NotLogged, << >>, "", 0)

\* a clarification turn whose response leaves is_clarification at its default
clarification_outcome_unflagged(ch, m, session_id, user_message, enhanced_query, clarification_msg) ==
    Outcome(ch,
            log_query(m, session_id, "none", TRUE, FALSE, FALSE),
            [ status |-> 200, session_id |-> session_id,
              assistant_message |-> clarification_msg, source_citation |-> "none",
              retrieved_count |-> 0, is_clarification |-> FALSE, is_unknown |-> FALSE ],
            LogEvent(session_id, user_message, "none", 0, TRUE, FALSE, FALSE),
            << "_resolve_pronouns", "needs_clarification", "log_query" >>,
            enhanced_query, 0)

\* chat, lines 129-146: the clarification turn
clarification_outcome(ch, m, session_id, user_message, enhanced_query, clarification_msg) ==
    Outcome(ch,
            log_query(m, session_id, "none", TRUE, FALSE, FALSE),
            [ status |-> 200, session_id |-> session_id,
              assistant_message |-> clarification_msg, source_citation |-> "none",
              retrieved_count |-> 0, is_clarification |-> TRUE, is_unknown |-> FALSE ],
            LogEvent(session_id, user_message, "none", 0, TRUE, FALSE, FALSE),
            << "_resolve_pronouns", "needs_clarification", "log_query" >>,
            enhanced_query, 0)

\* chat, lines 171-192: the flags read off the reply, the log line, the response
answered(m, session_id, user_message, enhanced_query, retrieved_count, gen) ==
    LET is_unknown        == is_unknown_reply(gen.response)
        is_safety_refusal == is_safety_refusal_reply(gen.response)
    IN  Outcome(gen.conversation_history,
                log_query(m, session_id, gen.source_citation, FALSE, is_unknown, is_safety_refusal),
                [ status |-> 200, session_id |-> session_id,
                  assistant_message |-> gen.response, source_citation |-> gen.source_citation,
                  retrieved_count |-> retrieved_count, is_clarification |-> FALSE,
                  is_unknown |-> is_unknown ],
                LogEvent(session_id, user_message, gen.source_citation, retrieved_count,
                         FALSE, is_unknown, is_safety_refusal),
                << "_resolve_pronouns", "needs_clarification", "classify_query", "search",
                   "get_best_results", "generate_response" >> \o gen.calls \o << "log_query" >>,
                enhanced_query, gen.relevant_count)

\* chat, lines 164-192: synthesis from the fused results, then the above
fused_answer(ch, m, session_id, user_message, enhanced_query, best) ==
    { answered(m, session_id, user_message, enhanced_query, Len(best[1]), gen) :
        gen \in generate_response(ch, user_message, best[1], best[2], session_id) }

\* chat, lines 159-192: fusion of what search found, then the above
found_answer(ch, m, session_id, user_message, enhanced_query, found) ==
    fused_answer(ch, m, session_id, user_message, enhanced_query,
                 get_best_results(found[1], found[2], 3))

\* a handler that catches the backend's exception and answers as if search
\* had found nothing
failed_outcome_swallowed(ch, m, session_id, user_message, enhanced_query) ==
    CHOOSE out \in fused_answer(ch, m, session_id, user_message, enhanced_query,
                                << << >>, "none" >>) : TRUE

\* chat, lines 152-156, when model.embed raises inside search (retriever.py
\* line 121): nothing catches the exception, the handler ends there
failed_outcome(ch, m, session_id, user_message, enhanced_query) ==
    Outcome(ch, m, [ status |-> 500 ], NotLogged,
            << "_resolve_pronouns", "needs_clarification", "classify_query", "search" >>,
            enhanced_query, 0)

\* the embedding backend's answer to a request is an exception
Raises(d) == "raises" \in DOMAIN d

\* chat, lines 148-192: classification, retrieval, fusion, synthesis, logging
answer_outcome(ch, m, dchunks, dembed, echunks, eembed, session_id, user_message, enhanced_query, ddists, edists) ==
    found_answer(ch, m, session_id, user_message, enhanced_query,
                 search(dchunks, dembed, echunks, eembed, ddists, edists, 5,
                        classify_query(enhanced_query)))

\* the chat handler on one request, from the stores it finds: the outcomes it
\* can have, for each answer the embedding backend may give to search and each
\* text synthesis can give
chat_outcomes(ch, m, dchunks, dembed, echunks, eembed, session_id, raw_message, backend) ==
    LET user_message == Strip(raw_message)
        enhanced_query == resolve_pronouns(ch, user_message, session_id)
        ch1 == get_history(ch, session_id)
        clar == needs_clarification(enhanced_query)
    IN  IF user_message = "" THEN { rejected_outcome(ch, m) }
        ELSE IF clar[1]
        THEN { clarification_outcome(ch1, m, session_id, user_message, enhanced_query, clar[2]) }
        ELSE UNION { IF Raises(d)
                     THEN { failed_outcome(ch1, m, session_id, user_message, enhanced_query) }
                     ELSE answer_outcome(ch1, m, dchunks, dembed, echunks, eembed, session_id,
                                         user_message, enhanced_query, d.doc, d.excel) :
                     d \in backend }

(***************************************************************************)
(* The corpus the startup code indexes, the requests and the distances     *)
(***************************************************************************)
Chunk(type, content, structured_data) ==
    [ type |-> type, content |-> content, structured_data |-> structured_data ]

\* load_docx output: a paragraph, a table row whose two columns share a header
\* (the later, empty cell overwrites the value in row_data) and a plain table row
DocCorpus ==
    << Chunk("paragraph", "Imatinib label caution. Monitor liver function. Avoid grapefruit.", << >>),
       Chunk("table", "Drug: Nivolumab", << <<"Drug", "">> >>),
       Chunk("table", "Drug: Metformin | Note: renal monitoring",
             << <<"Drug", "Metformin">>, <<"Note", "renal monitoring">> >>) >>

\* get_excel_chunks output
ExcelCorpus ==
    << Chunk("excel_row",
             "drug_name: Imatinib | indication: CML | dose: 400mg daily | ae_terms: Nausea | severity: Mild | outcome: Resolved",
             << <<"drug_name", "Imatinib">>, <<"indication", "CML">>, <<"dose", "400mg daily">>,
                <<"ae_terms", "Nausea">>, <<"severity", "Mild">>, <<"outcome", "Resolved">> >>),
       Chunk("excel_row",
             "drug_name: Metformin | indication: Diabetes | dose: 500mg BID",
             << <<"drug_name", "Metformin">>, <<"indication", "Diabetes">>, <<"dose", "500mg BID">>,
                <<"ae_terms", "">>, <<"severity", "">>, <<"outcome", "">> >>) >>

\* the squared distances the embedding backend yields for a request, per corpus
NearProfile  == [ doc |-> << 3000, 5000, 7000 >>,     excel |-> << 4000, 6000 >> ]
FarProfile   == [ doc |-> << 14000, 15000, 20000 >>,  excel |-> << 14000, 16000 >> ]
MixedProfile == [ doc |-> << 13999, 14000, 9000 >>,   excel |-> << 20000, 1000 >> ]

\* no two chunks of a corpus are equidistant in these three: argsort has one outcome
DistProfiles == { NearProfile, FarProfile, MixedProfile }

\* a query equidistant from two chunks of each corpus
TieProfile == [ doc |-> << 5000, 5000, 3000 >>, excel |-> << 4000, 4000 >> ]

\* model.embed raises (model file unreadable, out of memory, ...)
EmbedFailure == [ raises |-> TRUE ]

SessionIds == { "s1" }

\* the ids uuid4 hands to requests that carry no session id
UuidPool == { "u1" }

Messages ==
    { "Should I take more metformin",
      "change my dose",
      "how to make a bomb",
      "Hello!",
      "what is the dose",
      "dose of Metformin and Imatinib",
      "what about it",
      "any limits?",
      "dosage adjustment for renal impairment",
      "dose for melanoma",
      "nivolumab",
      "   ",
      "" }

MaxTurns == 2

VARIABLES
    conversation_history,   \* ChatbotEngine.conversation_history: session id -> turns
    metrics,                \* ChatLogger.metrics
    doc_chunks, excel_chunks,           \* Retriever.doc_chunks / excel_chunks
    doc_embeddings, excel_embeddings,   \* Retriever.doc_embeddings / excel_embeddings
    response,               \* the response to the last request
    log_event,              \* the event it logged, if any
    calls,                  \* the component methods it called, in order
    enhanced,               \* its query after pronoun resolution
    survivors,              \* len(relevant_results) where its relevance filter ran
    transcript,             \* per session, every turn handed to _add_to_history
                            \* since the session was created
    probe                   \* the last call made on a component directly (not
                            \* through an endpoint): its arguments and result;
                            \* in SpecServer the server process around the
                            \* handlers: whether lifespan has run and the
                            \* requests received but not yet handled

vars == << conversation_history, metrics, doc_chunks, excel_chunks, doc_embeddings,
           excel_embeddings, response, log_event, calls, enhanced, survivors, transcript,
           probe >>

index == << doc_chunks, excel_chunks, doc_embeddings, excel_embeddings >>

\* the state once lifespan's startup has run: both corpora indexed, no session,
\* the metrics _load_metrics found
Init ==
    /\ conversation_history = << >>
    /\ metrics \in load_metrics
    /\ doc_chunks = DocCorpus
    /\ excel_chunks = ExcelCorpus
    /\ doc_embeddings = Embeddings(Len(DocCorpus))
    /\ excel_embeddings = Embeddings(Len(ExcelCorpus))
    /\ response = [ status |-> 0 ]
    /\ log_event = NotLogged
    /\ calls = << >>
    /\ enhanced = ""
    /\ survivors = 0
    /\ transcript = << >>
    /\ probe = [ op |-> "build_index", doc_chunks |-> DocCorpus, excel_chunks |-> ExcelCorpus ]

\* the turns _add_to_history received in this request, added to the record
Recorded(tr, session_id, user_message, out) ==
    LET tr1 == IF session_id \in DOMAIN tr THEN tr ELSE tr @@ (session_id :> << >>)
    IN  IF \E i \in 1..Len(out.calls) : out.calls[i] = "_add_to_history"
        THEN [tr1 EXCEPT ![session_id] =
                Append(@, Turn(user_message, out.response.assistant_message,
                               out.response.source_citation))]
        ELSE tr1

\* a handler that is suspended between reading the history and writing it
\* back while the request before it completes: it appends to the list it read
handle_stale(session_id, raw_message, backend, max_turns) ==
    /\ metrics.total_turns < max_turns
    /\ \E out \in chat_outcomes([ s \in DOMAIN conversation_history |->
                                     SubSeq(conversation_history[s], 1,
                                            Len(conversation_history[s]) - 1) ],
                                metrics, doc_chunks, doc_embeddings,
                                excel_chunks, excel_embeddings, session_id, raw_message, backend) :
           /\ conversation_history' = out.conversation_history
           /\ metrics' = out.metrics
           /\ response' = out.response
           /\ log_event' = out.log_event
           /\ calls' = out.calls
           /\ enhanced' = out.enhanced_query
           /\ survivors' = out.relevant_count
           /\ transcript' = IF out.response.status = 400
                            THEN transcript
                            ELSE Recorded(transcript, session_id, Strip(raw_message), out)
    /\ UNCHANGED index

\* the chat handler run from its first line to its return or raise: it holds
\* no await, so the event loop runs nothing else in between
handle(session_id, raw_message, backend, max_turns) ==
    /\ metrics.total_turns < max_turns
    /\ \E out \in chat_outcomes(conversation_history, metrics, doc_chunks, doc_embeddings,
                                excel_chunks, excel_embeddings, session_id, raw_message, backend) :
           /\ conversation_history' = out.conversation_history
           /\ metrics' = out.metrics
           /\ response' = out.response
           /\ log_event' = out.log_event
           /\ calls' = out.calls
           /\ enhanced' = out.enhanced_query
           /\ survivors' = out.relevant_count
           /\ transcript' = IF out.response.status = 400
                            THEN transcript
                            ELSE Recorded(transcript, session_id, Strip(raw_message), out)
    /\ UNCHANGED index

\* POST /api/chat for the session id the handler settles on (the one given, or
\* the one uuid4 supplies)
chat(session_id, raw_message, backend, max_turns) ==
    handle(session_id, raw_message, backend, max_turns) /\ UNCHANGED probe

\* a reset that clears the whole table: conversation_history.clear()
reset_session_all(session_id) ==
    /\ conversation_history' = << >>
    /\ transcript' = << >>
    /\ UNCHANGED << metrics, index, response, log_event, calls, enhanced, survivors, probe >>

\* POST /api/reset_session
reset_session(session_id) ==
    /\ conversation_history' =
         [ s \in DOMAIN conversation_history \ {session_id} |-> conversation_history[s] ]
    /\ transcript' = [ s \in DOMAIN transcript \ {session_id} |-> transcript[s] ]
    /\ UNCHANGED << metrics, index, response, log_event, calls, enhanced, survivors, probe >>

KnownIds == DOMAIN conversation_history \cup DOMAIN metrics.sessions

\* the ids a client can send: its own, or one an earlier response returned
GivenIds == SessionIds \cup (UuidPool \cap KnownIds)

Chat ==
    \E raw_message \in Messages :
        \/ \E sid \in GivenIds : chat(sid, raw_message, DistProfiles, MaxTurns)
        \/ \E u \in UuidPool \ KnownIds : chat(u, raw_message, DistProfiles, MaxTurns)

Reset == \E sid \in SessionIds \cup UuidPool : reset_session(sid)

Next == Chat \/ Reset

Spec == Init /\ [][Next]_vars

(***************************************************************************)
(* Long conversations: one client session and one generated one, short     *)
(* messages, a single embedding profile, enough turns to fill the history  *)
(* window and evict from it.                                               *)
(***************************************************************************)
MaxHistTurns == 7

HistMessages == { "Hello!", "how to make a bomb" }

HistBackend == { NearProfile }

ChatHist ==
    \E raw_message \in HistMessages :
        \/ \E sid \in SessionIds : chat(sid, raw_message, HistBackend, MaxHistTurns)
        \/ \E u \in UuidPool \ KnownIds : chat(u, raw_message, HistBackend, MaxHistTurns)

NextHist == ChatHist \/ Reset

SpecHist == Init /\ [][NextHist]_vars

(***************************************************************************)
(* Vocabulary of the properties                                            *)
(***************************************************************************)
\* the last request was answered with a chat response
Answered == response.status = 200

\* the message of the last answered request, as the logger recorded it
asked == log_event.user_message

Called(name) == \E i \in 1..Len(calls) : calls[i] = name

\* the step is a chat request that ran to its log line
ChatStep == metrics'.total_turns = metrics.total_turns + 1

\* the session's history before the step
PriorHistory(session_id) ==
    IF session_id \in DOMAIN conversation_history
    THEN conversation_history[session_id] ELSE << >>

\* the exchange the step completed, as a history turn
Exchange == Turn(log_event'.user_message, response'.assistant_message,
                 response'.source_citation)

\* the step appended exactly that exchange to its session's history, evicting
\* the oldest turn of a full window
AppendedExchange ==
    LET session_id == response'.session_id
        before     == PriorHistory(session_id)
        kept       == IF Len(before) >= 5 THEN Tail(before) ELSE before
    IN  /\ session_id \in DOMAIN conversation_history'
        /\ conversation_history'[session_id] = Append(kept, Exchange)

\* the query trips the safety gate
Unsafe(query) == check_safety_guardrails(query)[1]

SafetyRefusals == { MedicalAdviceRefusal, PolicyRefusal }

RetrievalCalls == { "classify_query", "search", "get_best_results" }

(***************************************************************************)
(* The safety gate                                                         *)
(***************************************************************************)
\* C1: a chat request whose message contains a medical-advice or harmful
\* keyword never invokes Retriever.search: the safety check comes before retrieval.
C1_UnsafeNeverSearched ==
    (Answered /\ Unsafe(asked)) => ~Called("search")

\* C2: a chat request whose message contains a safety keyword is answered with
\* one of the two fixed refusal messages, whatever else the message contains,
\* and never with the clarification prompt.
C2_UnsafeAlwaysRefused ==
    (Answered /\ Unsafe(asked)) =>
        /\ response.assistant_message \in SafetyRefusals
        /\ ~response.is_clarification

\* the last request was refused by the safety gate
RefusedBySafetyGate ==
    Answered /\ Called("_check_safety_guardrails") /\ Unsafe(asked)

\* C3: every turn the safety gate refuses, on a medical-advice match or on a
\* harmful/policy match, is logged with is_safety_refusal true and is_unknown
\* false, cites "none", and raises the safety-refusal counter by exactly one.
C3_RefusalLoggedAndCounted ==
    [][ (ChatStep /\ RefusedBySafetyGate') =>
            /\ log_event'.is_safety_refusal
            /\ ~log_event'.is_unknown
            /\ log_event'.source_used = "none"
            /\ response'.source_citation = "none"
            /\ metrics'.safety_refusals = metrics.safety_refusals + 1 ]_vars

(***************************************************************************)
(* The no-information reply                                                *)
(***************************************************************************)
\* the last request was neither unsafe, ambiguous nor a greeting, and none of
\* its retrieved results survived the relevance filter
NoGrounding ==
    /\ Answered
    /\ Called("generate_response")
    /\ ~Unsafe(asked)
    /\ ~is_greeting(asked)
    /\ survivors = 0

\* C4: when no retrieved result survives the relevance filter for a query that
\* is neither unsafe, ambiguous nor a greeting, the reply is the static
\* no-information message citing "none", and the turn is returned and logged
\* with is_unknown true and raises the unknown-response counter.
C4_NoGroundingIsUnknown ==
    [][ (ChatStep /\ NoGrounding') =>
            /\ response'.assistant_message = NoInfoReply
            /\ response'.source_citation = "none"
            /\ response'.is_unknown
            /\ log_event'.is_unknown
            /\ metrics'.unknown_responses = metrics.unknown_responses + 1 ]_vars

(***************************************************************************)
(* Clarification                                                           *)
(***************************************************************************)
DownstreamCalls ==
    RetrievalCalls \cup { "generate_response", "_check_safety_guardrails", "_is_greeting",
                          "_is_relevant", "_format_excel_results", "_format_doc_results",
                          "_add_to_history" }

\* C5: when needs_clarification returns true for a request, the turn ends with
\* the fixed clarification prompt, is_clarification true, citation "none" and
\* retrieved_count 0, and classification, search, fusion, relevance filtering
\* and synthesis are not executed.
C5_ClarificationEndsTurn ==
    (Answered /\ needs_clarification(enhanced)[1]) =>
        /\ response.assistant_message = ClarificationPrompt
        /\ response.is_clarification
        /\ log_event.is_clarification
        /\ response.source_citation = "none"
        /\ response.retrieved_count = 0
        /\ \A name \in DownstreamCalls \ { "_add_to_history" } : ~Called(name)

\* "what is the dose" on a session without history was answered with the prompt
C5_Witness ==
    /\ Answered
    /\ asked = "what is the dose"
    /\ needs_clarification(enhanced)[1]
    /\ response.assistant_message = ClarificationPrompt
    /\ calls = << "_resolve_pronouns", "needs_clarification", "log_query" >>

\* the words of the ambiguity rule: attribute keywords and general-medical terms
AttributeKeywords ==
    { "dose", "dosing", "dosage", "adverse event", "ae", "aes",
      "severity", "outcome", "caution", "side effect" }

GeneralMedicalTerms == { "renal", "kidney", "hepatic", "liver", "impairment" }

KnownDrugs == { drug_list[i] : i \in 1..Len(drug_list) }

KnownIndications == { indication_list[i] : i \in 1..Len(indication_list) }

Mentions(words, query) == \E w \in words : Contains(w, Lower(query))

\* a query that asks for a drug attribute and names no drug, no indication and
\* no general medical condition
Ambiguous(query) ==
    /\ Mentions(AttributeKeywords, query)
    /\ ~Mentions(KnownDrugs, query)
    /\ ~Mentions(KnownIndications, query)
    /\ ~Mentions(GeneralMedicalTerms, query)

\* C6: needs_clarification returns (true, the fixed prompt) exactly when the
\* lower-cased query holds a drug-attribute keyword and no known drug name, no
\* known indication and no general-medical term; adding a known drug name to a
\* query it returned true for makes it return false.
C6_ClarificationIffAmbiguous ==
    Answered =>
        LET asked_for == needs_clarification(enhanced)
        IN  /\ (asked_for = << TRUE, ClarificationPrompt >>) <=> Ambiguous(enhanced)
            /\ asked_for[1] \/ asked_for = << FALSE, "" >>
            /\ asked_for[1] =>
                 \A drug \in KnownDrugs : ~needs_clarification(enhanced \o " " \o drug)[1]

\* "dose for melanoma" names an indication and "dosage adjustment for renal
\* impairment" a general-medical term: an attribute query that was not ambiguous
C6_Witness ==
    /\ Answered
    /\ Mentions(AttributeKeywords, enhanced)
    /\ ~Mentions(KnownDrugs, enhanced)
    /\ Mentions(GeneralMedicalTerms, enhanced)
    /\ ~response.is_clarification

(***************************************************************************)
(* Session history                                                         *)
(***************************************************************************)
\* C7: after n turns appended to a session its history holds exactly the most
\* recent min(n, 5) of them in their original order; the history never has
\* more than 5 turns and eviction is always of the oldest turn.
C7_HistoryIsMostRecentFive ==
    \A session_id \in DOMAIN conversation_history :
        LET history  == conversation_history[session_id]
            appended == transcript[session_id]
            n        == Len(appended)
        IN  /\ Len(history) <= 5
            /\ Len(history) = Min(n, 5)
            /\ history = SubSeq(appended, n - Min(n, 5) + 1, n)

\* seven turns went into one session, the first two unlike the last five
C7_Witness ==
    \E session_id \in DOMAIN conversation_history :
        /\ Len(transcript[session_id]) = 7
        /\ Len(conversation_history[session_id]) = 5
        /\ transcript[session_id][1] # transcript[session_id][3]
        /\ transcript[session_id][2] # transcript[session_id][7]

\* C8: after every completed chat exchange of a session, whatever its outcome
\* (grounded answer, greeting, safety refusal, no-information reply or
\* clarification prompt), exactly one turn recording that exchange has been
\* appended to that session's history.
C8_EveryExchangeRecorded ==
    [][ ChatStep => AppendedExchange ]_vars

\* C9: every return path of generate_response (safety refusal, greeting, no
\* relevant results, grounded answer, fallback) appends exactly one turn to the
\* given session, holding the original query, the reply returned and the
\* citation returned.
C9_SynthesizerRecordsTurn ==
    [][ (ChatStep /\ Called("generate_response")') => AppendedExchange ]_vars

\* the fallback path returned and its turn closes the session's history
C9_Witness ==
    /\ Answered
    /\ Called("_format_doc_results")
    /\ response.assistant_message = FallbackReply
    /\ response.session_id \in DOMAIN conversation_history
    /\ LET history == conversation_history[response.session_id]
       IN  /\ history # << >>
           /\ history[Len(history)] = Turn(asked, FallbackReply, "none")

(***************************************************************************)
(* Pronoun resolution                                                      *)
(***************************************************************************)
PronounTokens == { "that", "it", "this", "them" }

\* some whitespace-separated token of the lower-cased query is a pronoun
HasPronounToken(query) ==
    LET q == Lower(query)
    IN  \E i \in 1..Len(q) : \E j \in i..Min(i + 3, Len(q)) :
            /\ i = 1 \/ IsSpace(CharAt(q, i - 1))
            /\ j = Len(q) \/ IsSpace(CharAt(q, j + 1))
            /\ SubSeq(q, i, j) \in PronounTokens

\* the positions in the fixed drug list of the drugs a turn names
NamedDrugs(turn) ==
    { d \in 1..Len(drugs) :
        Contains(drugs[d], Lower(turn.user_message \o " " \o turn.assistant_message)) }

\* the query pronoun resolution should hand on
Resolved(history, query) ==
    IF history = << >> \/ ~HasPronounToken(query) \/ NamedDrugs(history[Len(history)]) = {}
    THEN query
    ELSE LET named == NamedDrugs(history[Len(history)])
             first == CHOOSE d \in named : \A e \in named : d <= e
         IN  query \o " (referring to " \o drugs[first] \o ")"

\* C10: _resolve_pronouns returns the query unchanged when the session has no
\* prior turn, when no whitespace-separated token of the lower-cased query is
\* one of that/it/this/them, or when the most recent turn names no known drug;
\* otherwise it returns the query with " (referring to <drug>)" appended, for
\* the first drug of the fixed list that occurs in the most recent turn's text.
C10_PronounResolution ==
    [][ ChatStep =>
            enhanced' = Resolved(PriorHistory(response'.session_id), log_event'.user_message)
      ]_vars

\* "what about it" after a turn whose text names metformin before imatinib
C10_Witness ==
    /\ Answered
    /\ asked = "what about it"
    /\ enhanced = "what about it (referring to imatinib)"
    /\ response.session_id \in DOMAIN conversation_history
    /\ LET history == conversation_history[response.session_id]
       IN  /\ Len(history) = 2
           /\ history[1].user_message = "dose of Metformin and Imatinib"

(***************************************************************************)
(* Referents: conversations of a few turns that mix a turn naming drugs,   *)
(* turns naming none and a pronoun query, with near and far retrieval.     *)
(***************************************************************************)
MaxRefTurns == 3

RefMessages ==
    { "dose of Metformin and Imatinib", "Hello!", "what about it", "dose of it",
      "dose of it for melanoma" }

RefBackend == { NearProfile, FarProfile }

ChatRef ==
    \E raw_message \in RefMessages :
        \/ \E sid \in SessionIds : chat(sid, raw_message, RefBackend, MaxRefTurns)
        \/ \E u \in UuidPool \ KnownIds : chat(u, raw_message, RefBackend, MaxRefTurns)

NextRef == ChatRef \/ Reset

SpecRef == Init /\ [][NextRef]_vars

\* C11: pronoun resolution consults only the most recent stored turn: when that
\* turn names no known drug the query is returned unchanged, even when an
\* older stored turn names one, and a referent always comes from the last turn.
C11_OnlyLastTurnConsulted ==
    [][ ChatStep =>
            LET prior == PriorHistory(response'.session_id)
                query == log_event'.user_message
            IN  /\ (prior # << >> /\ NamedDrugs(prior[Len(prior)]) = {}) => enhanced' = query
                /\ enhanced' # query =>
                     /\ prior # << >>
                     /\ \E d \in NamedDrugs(prior[Len(prior)]) :
                            enhanced' = query \o " (referring to " \o drugs[d] \o ")"
      ]_vars

\* "what about it" came back unchanged in a session whose first turn names
\* drugs and whose second turn names none
C11_Witness ==
    /\ Answered
    /\ asked = "what about it"
    /\ enhanced = asked
    /\ response.session_id \in DOMAIN conversation_history
    /\ LET history == conversation_history[response.session_id]
       IN  /\ Len(history) = 3
           /\ NamedDrugs(history[1]) # {}
           /\ NamedDrugs(history[2]) = {}
           /\ history[3].user_message = asked

(***************************************************************************)
(* Session reset                                                           *)
(***************************************************************************)
\* C12: reset_session leaves the named session without history (a following
\* pronoun query is returned unchanged), has no effect at all when the session
\* is unknown, and leaves every other session's history and the metrics
\* unchanged.
C12_ResetFrame ==
    [][ /\ \A session_id \in SessionIds \cup UuidPool :
             reset_session(session_id) =>
                 /\ session_id \notin DOMAIN conversation_history'
                 /\ DOMAIN conversation_history' = DOMAIN conversation_history \ {session_id}
                 /\ \A other \in DOMAIN conversation_history' :
                        conversation_history'[other] = conversation_history[other]
                 /\ metrics' = metrics
                 /\ (session_id \notin DOMAIN conversation_history =>
                        conversation_history' = conversation_history)
        /\ (ChatStep /\ response'.session_id \notin DOMAIN conversation_history) =>
               enhanced' = log_event'.user_message
      ]_vars

\* "what about it" came back unchanged as the second logged turn of a session
\* whose first turn was recorded and then reset away, in a process that
\* started with no saved metrics
C12_Witness ==
    /\ Answered
    /\ asked = "what about it"
    /\ enhanced = asked
    /\ metrics.clarifications_asked = 0
    /\ metrics.excel_queries = 0
    /\ response.session_id \in DOMAIN metrics.sessions
    /\ metrics.sessions[response.session_id] = 2
    /\ response.session_id \in DOMAIN conversation_history
    /\ Len(conversation_history[response.session_id]) = 1

(***************************************************************************)
(* Input validation                                                        *)
(***************************************************************************)
Blank(message) == \A i \in 1..Len(message) : IsSpace(CharAt(message, i))

\* C13: a chat request whose message is empty or whitespace-only is rejected
\* with a validation error before any pipeline stage runs: no component
\* method is called, no session history changes, no turn is logged or counted.
C13_BlankMessageRejected ==
    [][ \A session_id \in SessionIds \cup UuidPool, raw_message \in Messages :
            (Blank(raw_message) /\ chat(session_id, raw_message, DistProfiles, MaxTurns)) =>
                /\ response'.status = 400
                /\ calls' = << >>
                /\ log_event' = NotLogged
                /\ conversation_history' = conversation_history
                /\ transcript' = transcript
                /\ metrics' = metrics
      ]_vars

\* a blank message rejected in a deployment that has already served a turn
C13_Witness ==
    /\ response.status = 400
    /\ calls = << >>
    /\ metrics.total_turns = 1
    /\ conversation_history # << >>

(***************************************************************************)
(* A failing embedding backend: requests whose search may raise, among     *)
(* requests that are served.                                               *)
(***************************************************************************)
MaxFailTurns == 2

FailMessages ==
    { "nivolumab", "nivolumab nausea", "what is the dose", "Hello!",
      "dose of Metformin and Imatinib", "metformin outcome",
      "imatinib side effect", "imatinib severity" }

FailBackend == { NearProfile, EmbedFailure }

ChatFail ==
    \E raw_message \in FailMessages :
        \/ \E sid \in SessionIds : chat(sid, raw_message, FailBackend, MaxFailTurns)
        \/ \E u \in UuidPool \ KnownIds : chat(u, raw_message, FailBackend, MaxFailTurns)

NextFail == ChatFail \/ Reset

SpecFail == Init /\ [][NextFail]_vars

\* C14: if the embedding/search backend raises during a chat request, the
\* failure leaves the request as an error and never as a templated reply; no
\* turn is appended to any session's history and no metrics counter changes.
C14_BackendFailurePropagates ==
    [][ \A session_id \in SessionIds \cup UuidPool, raw_message \in FailMessages :
            (/\ chat(session_id, raw_message, {EmbedFailure}, MaxFailTurns)
             /\ \E i \in 1..Len(calls') : calls'[i] = "search") =>
                /\ response'.status = 500
                /\ "assistant_message" \notin DOMAIN response'
                /\ log_event' = NotLogged
                /\ metrics' = metrics
                /\ \A s \in DOMAIN conversation_history' :
                       conversation_history'[s] = PriorHistory(s)
      ]_vars

\* the backend failed on a request of a session that already has a turn
C14_Witness ==
    /\ response.status = 500
    /\ Called("search")
    /\ metrics.total_turns >= 1
    /\ \E s \in DOMAIN conversation_history : Len(conversation_history[s]) >= 1

(***************************************************************************)
(* The components called directly: a Retriever, a ChatbotEngine and a      *)
(* ChatLogger as their constructors leave them, then any sequence of calls *)
(* of the retriever's methods.                                             *)
(***************************************************************************)
InitFresh ==
    /\ conversation_history = << >>
    /\ metrics = EmptyMetrics
    /\ doc_chunks = << >>
    /\ excel_chunks = << >>
    /\ doc_embeddings = NoEmbeddings
    /\ excel_embeddings = NoEmbeddings
    /\ response = [ status |-> 0 ]
    /\ log_event = NotLogged
    /\ calls = << >>
    /\ enhanced = ""
    /\ survivors = 0
    /\ transcript = << >>
    /\ probe = [ op |-> "Retriever" ]

served == << conversation_history, metrics, response, log_event, calls, enhanced, survivors, transcript >>

\* Retriever.build_index: a corpus is embedded and stored only if its chunk
\* list is not empty
build_index(new_doc_chunks, new_excel_chunks) ==
    /\ IF new_doc_chunks # << >>
       THEN doc_embeddings' = Embeddings(Len(new_doc_chunks)) /\ doc_chunks' = new_doc_chunks
       ELSE UNCHANGED << doc_embeddings, doc_chunks >>
    /\ IF new_excel_chunks # << >>
       THEN excel_embeddings' = Embeddings(Len(new_excel_chunks)) /\ excel_chunks' = new_excel_chunks
       ELSE UNCHANGED << excel_embeddings, excel_chunks >>
    /\ probe' = [ op |-> "build_index", doc_chunks |-> new_doc_chunks,
                  excel_chunks |-> new_excel_chunks ]
    /\ UNCHANGED served

\* Retriever.search on the index as it stands
call_search(d, top_k, source_preference) ==
    /\ \E result \in search_outcomes(doc_chunks, doc_embeddings, excel_chunks, excel_embeddings,
                                      d.doc, d.excel, top_k, source_preference) :
           probe' = [ op |-> "search", top_k |-> top_k, source_preference |-> source_preference,
                      dists |-> d, result |-> result ]
    /\ UNCHANGED << served, index >>

SourcePreferences == { "doc", "excel", "both" }

\* Retriever.get_best_results on two result lists
call_get_best_results(doc_results, excel_results, max_results) ==
    /\ probe' = [ op |-> "get_best_results", doc_results |-> doc_results,
                  excel_results |-> excel_results, max_results |-> max_results,
                  result |-> get_best_results(doc_results, excel_results, max_results) ]
    /\ UNCHANGED << served, index >>

\* a search result: a chunk copy with its score, not yet tagged with its origin
Hit(content, score) ==
    [ type |-> "paragraph", content |-> content, structured_data |-> << >>,
      score |-> score, source_type |-> None ]

\* the result lists of up to two results at distances 0.3, 0.9 and 2.0, in
\* any order, equal distances included
HitLists ==
    LET scores == { 3000, 9000, 20000 }
    IN  { << >> } \cup { << Hit("r1", a) >> : a \in scores }
                 \cup { << Hit("r1", a), Hit("r2", b) >> : a \in scores, b \in scores }

\* chat, lines 149-156, on the retriever alone: the query is classified and the
\* search is run with the preference found
call_classify_query(query, d) ==
    /\ probe' = [ op |-> "classify_query", query |-> query,
                  result |-> classify_query(query),
                  found |-> search(doc_chunks, doc_embeddings, excel_chunks, excel_embeddings,
                                   d.doc, d.excel, 5, classify_query(query)) ]
    /\ UNCHANGED << served, index >>

\* one keyword of each list, a single keyword, and a few other queries
ClassifyQueries ==
    { excel_keywords[i] \o " " \o doc_keywords[j] :
          i \in 1..Len(excel_keywords), j \in 1..Len(doc_keywords) }
    \cup { excel_keywords[i] : i \in 1..Len(excel_keywords) }
    \cup { doc_keywords[j] : j \in 1..Len(doc_keywords) }
    \cup { "", "Hello!", "DOSE Label", "label caution dose", "dose mg label",
           "caesar label", "nivolumab" }

NextComponents ==
    \/ \E new_doc_chunks \in { << >>, DocCorpus }, new_excel_chunks \in { << >>, ExcelCorpus } :
           build_index(new_doc_chunks, new_excel_chunks)
    \/ \E d \in DistProfiles \cup { TieProfile }, top_k \in { 1, 5 },
          source_preference \in SourcePreferences :
           call_search(d, top_k, source_preference)
    \/ \E doc_results \in HitLists, excel_results \in HitLists, max_results \in 1..3 :
           call_get_best_results(doc_results, excel_results, max_results)

SpecComponents == InitFresh /\ [][NextComponents]_vars

\* C15: after any sequence of build calls, a corpus for which the most recent
\* build supplied an empty chunk sequence has no index: search returns an empty
\* result list for it, while a corpus built non-empty contributes its results
\* whatever was supplied for the other corpus.
C15_EmptyBuildLeavesIndexAbsent ==
    probe.op = "build_index" =>
        \A d \in DistProfiles :
            LET found == search(doc_chunks, doc_embeddings, excel_chunks, excel_embeddings,
                                d.doc, d.excel, 5, "both")
            IN  /\ (probe.doc_chunks = << >>) <=> (found[1] = << >>)
                /\ (probe.excel_chunks = << >>) <=> (found[2] = << >>)

(***************************************************************************)
(* Fusion                                                                  *)
(***************************************************************************)
\* the two lists as one, doc results first, each result tagged with its origin
Merged(doc_results, excel_results) ==
    [ i \in 1..(Len(doc_results) + Len(excel_results)) |->
        IF i <= Len(doc_results)
        THEN [ doc_results[i] EXCEPT !.source_type = "doc" ]
        ELSE [ excel_results[i - Len(doc_results)] EXCEPT !.source_type = "excel" ] ]

\* position p of the merged list ranks before position q
RanksBefore(merged, p, q) ==
    \/ merged[p].score < merged[q].score
    \/ merged[p].score = merged[q].score /\ p < q

\* selected is the first Len(selected) elements of merged in rank order
IsRankPrefix(selected, merged) ==
    \E at \in [ 1..Len(selected) -> 1..Len(merged) ] :
        /\ \A i \in 1..Len(selected) : selected[i] = merged[at[i]]
        /\ \A i, j \in 1..Len(selected) : i < j => RanksBefore(merged, at[i], at[j])
        /\ \A i \in 1..Len(selected), q \in 1..Len(merged) :
               (\A j \in 1..Len(selected) : at[j] # q) => RanksBefore(merged, at[i], q)

\* C16: get_best_results returns the first min(max_results, |doc| + |tabular|)
\* elements of the two lists merged and sorted ascending by distance, each
\* tagged with its origin; equal distances keep doc results before tabular
\* ones and input order within a list; no excluded result is nearer than an
\* included one.  [0.9 tab, 0.3 doc, 2.0 tab] with max 3 gives
\* [0.3 doc, 0.9 tab, 2.0 tab] and primary source 'both'.
C16_FusionIsStableRankPrefix ==
    probe.op = "get_best_results" =>
        LET merged   == Merged(probe.doc_results, probe.excel_results)
            selected == probe.result[1]
        IN  /\ Len(selected) = Min(probe.max_results, Len(merged))
            /\ IsRankPrefix(selected, merged)
            /\ (/\ probe.doc_results = << Hit("r1", 3000) >>
                /\ probe.excel_results = << Hit("r1", 9000), Hit("r2", 20000) >>
                /\ probe.max_results = 3) =>
                   probe.result = << << [ Hit("r1", 3000) EXCEPT !.source_type = "doc" ],
                                        [ Hit("r1", 9000) EXCEPT !.source_type = "excel" ],
                                        [ Hit("r2", 20000) EXCEPT !.source_type = "excel" ] >>,
                                     "both" >>

\* a doc and a tabular result at the same distance compete for the last place
C16_Witness ==
    /\ probe.op = "get_best_results"
    /\ probe.max_results = 2
    /\ probe.doc_results = << Hit("r1", 9000) >>
    /\ probe.excel_results = << Hit("r1", 9000), Hit("r2", 3000) >>
    /\ Len(probe.result[1]) = 2
    /\ probe.result[1][2].source_type = "doc"

(***************************************************************************)
(* The relevance filter of generate_response on its own: the lists fusion  *)
(* can hand over from the indexed corpus, against a set of queries.        *)
(***************************************************************************)
FilterQueries ==
    { "Hello!", "what about it", "any limits?", "nivolumab", "dose of Metformin and Imatinib",
      "dosage adjustment for renal impairment", "   ", "imatinib nivolumab", "cautions",
      "kidney", "side effects", "hepatic doses" }

\* what get_best_results returns for the startup corpus, by distance profile
\* and source preference
FusedLists ==
    { get_best_results(search(DocCorpus, Embeddings(Len(DocCorpus)),
                              ExcelCorpus, Embeddings(Len(ExcelCorpus)),
                              d.doc, d.excel, 5, source_preference)[1],
                       search(DocCorpus, Embeddings(Len(DocCorpus)),
                              ExcelCorpus, Embeddings(Len(ExcelCorpus)),
                              d.doc, d.excel, 5, source_preference)[2], 3)[1] :
        d \in DistProfiles, source_preference \in SourcePreferences }

\* generate_response, lines 286-291, and the same lines run on their own output
call_relevance_filter(query, retrieved_results) ==
    /\ probe' = [ op |-> "relevance_filter", query |-> query,
                  retrieved_results |-> retrieved_results,
                  result |-> relevance_filter(query, retrieved_results),
                  again |-> relevance_filter(query, relevance_filter(query, retrieved_results)) ]
    /\ UNCHANGED << served, index >>

NextFilter ==
    \E query \in FilterQueries, retrieved_results \in FusedLists :
        call_relevance_filter(query, retrieved_results)

SpecFilter == Init /\ [][NextFilter]_vars

\* sub is what is left of full after deleting elements, the rest in order
IsSublist(sub, full) ==
    \E at \in [ 1..Len(sub) -> 1..Len(full) ] :
        /\ \A i \in 1..Len(sub) : sub[i] = full[at[i]]
        /\ \A i, j \in 1..Len(sub) : i < j => at[i] < at[j]

\* C17: the relevance filter is idempotent: applied to its own output with the
\* same query it returns that output unchanged; and its output is always an
\* order-preserving sub-list of its input.
C17_FilterIdempotent ==
    probe.op = "relevance_filter" =>
        /\ probe.again = probe.result
        /\ IsSublist(probe.result, probe.retrieved_results)

\* the filter dropped one of three results and kept two
C17_Witness ==
    /\ probe.op = "relevance_filter"
    /\ Len(probe.retrieved_results) = 3
    /\ Len(probe.result) = 2
    /\ probe.again = probe.result

\* the words of the query, lower-cased, that are not stop words
KeyTerms(query) ==
    LET words == FindWords(Lower(query))
    IN  { w \in { words[i] : i \in 1..Len(words) } : w \notin stop_words }

\* the term is found in the text directly, in its singular or plural form, or
\* through one of its synonyms
TermFound(term, text) ==
    \/ Contains(term, text)
    \/ \E stem \in { Prefix(term, Len(term) - 1) } : term = stem \o "s" /\ Contains(stem, text)
    \/ Contains(term \o "s", text)
    \/ \E i \in 1..Len(synonyms(term)) : Contains(synonyms(term)[i], text)

\* the lexical check: no key term at all, or at least one found
PassesLexical(query, result) ==
    KeyTerms(query) = {} \/ \E term \in KeyTerms(query) : TermFound(term, result_text(result))

\* C18: a retrieved result reaches synthesis exactly when its distance is
\* strictly below 1.4 and it passes the lexical check (no key term left after
\* stop-word removal, or a key term matches the result's searchable text
\* directly, by singular/plural variant or by synonym); distance 1.4 is
\* excluded, 1.3999 is kept when the lexical check passes.
C18_CutoffAndLexicalCheck ==
    probe.op = "relevance_filter" =>
        \A i \in 1..Len(probe.retrieved_results) :
            LET result == probe.retrieved_results[i]
            IN  (\E j \in 1..Len(probe.result) : probe.result[j] = result)
                    <=> (result.score < 14000 /\ PassesLexical(probe.query, result))

\* both boundary cases in one list: the result at 1.3999 kept, the one at 1.4
\* dropped although it passes the lexical check
C18_Witness ==
    /\ probe.op = "relevance_filter"
    /\ \E i \in 1..Len(probe.retrieved_results) :
           /\ probe.retrieved_results[i].score = 13999
           /\ \E j \in 1..Len(probe.result) : probe.result[j] = probe.retrieved_results[i]
    /\ \E i \in 1..Len(probe.retrieved_results) :
           /\ probe.retrieved_results[i].score = 14000
           /\ PassesLexical(probe.query, probe.retrieved_results[i])
           /\ \A j \in 1..Len(probe.result) : probe.result[j] # probe.retrieved_results[i]

(***************************************************************************)
(* Source classification: queries classified and searched in the corpus    *)
(* the startup code indexed.                                               *)
(***************************************************************************)
NextClassify == \E query \in ClassifyQueries : call_classify_query(query, NearProfile)

SpecClassify == Init /\ [][NextClassify]_vars

\* the keywords of the list that occur in the query, case-insensitively
Indicators(keywords, query) ==
    { k \in { keywords[i] : i \in 1..Len(keywords) } : Contains(k, Lower(query)) }

\* C19: classify returns 'doc' when the doc-indicator count of the query
\* strictly exceeds its tabular-indicator count, 'tabular' (in the code,
\* 'excel') when the tabular count strictly exceeds the doc count and 'both'
\* on every tie including 0-0, and no other value; search then queries only
\* the corpus or corpora named by that preference.
C19_ClassifyByIndicatorCounts ==
    probe.op = "classify_query" =>
        LET doc_count     == Cardinality(Indicators(doc_keywords, probe.query))
            tabular_count == Cardinality(Indicators(excel_keywords, probe.query))
        IN  /\ probe.result \in { "doc", "excel", "both" }
            /\ (probe.result = "doc") <=> (doc_count > tabular_count)
            /\ (probe.result = "excel") <=> (tabular_count > doc_count)
            /\ (probe.result = "both") <=> (tabular_count = doc_count)
            /\ probe.result = "doc" => probe.found[2] = << >>
            /\ probe.result = "excel" => probe.found[1] = << >>

\* a query with two doc indicators and one tabular indicator was searched in
\* the doc corpus alone
C19_Witness ==
    /\ probe.op = "classify_query"
    /\ probe.query = "label caution dose"
    /\ probe.result = "doc"
    /\ probe.found[1] # << >>
    /\ probe.found[2] = << >>

\* C20: every query in which exactly one keyword of the tabular-indicator set
\* and exactly one keyword of the doc-indicator set occur, and no other
\* indicator keyword, is classified 'both', whichever the two keywords are.
\* (A query made with 'aes' also contains 'ae', so it is not such a query.)
C20_OneIndicatorOfEachIsBoth ==
    (/\ probe.op = "classify_query"
     /\ Cardinality(Indicators(excel_keywords, probe.query)) = 1
     /\ Cardinality(Indicators(doc_keywords, probe.query)) = 1) => probe.result = "both"

\* 'severity' and 'trial summary' and no other indicator: classified 'both'
\* and searched in both corpora
C20_Witness ==
    /\ probe.op = "classify_query"
    /\ probe.query = "severity trial summary"
    /\ Indicators(excel_keywords, probe.query) = { "severity" }
    /\ Indicators(doc_keywords, probe.query) = { "trial summary" }
    /\ probe.result = "both"
    /\ probe.found[1] # << >>
    /\ probe.found[2] # << >>

(***************************************************************************)
(* Pronoun resolution before the clarification check                       *)
(***************************************************************************)
\* the request of the step is a pronoun follow-up on a session whose most
\* recent stored turn names a known drug
FollowsDrugTurn ==
    LET prior == PriorHistory(response'.session_id)
    IN  prior # << >> /\ NamedDrugs(prior[Len(prior)]) # {}

\* the claim as worded: every query with a pronoun token and a drug-attribute
\* keyword but no drug name gets the clarification prompt in a session without
\* history, and does not get it after a turn that names a known drug
C30_AnyAttributeFollowUp ==
    [][ (/\ ChatStep
         /\ HasPronounToken(log_event'.user_message)
         /\ Mentions(AttributeKeywords, log_event'.user_message)
         /\ ~Mentions(KnownDrugs, log_event'.user_message)) =>
            /\ FollowsDrugTurn => response'.assistant_message # ClarificationPrompt
            /\ PriorHistory(response'.session_id) = << >> =>
                   response'.assistant_message = ClarificationPrompt
      ]_vars

\* C30: pronoun resolution runs before the clarification check.  A query with
\* a pronoun token and a drug-attribute keyword that names no drug, no
\* indication and no general-medical term is not answered with the
\* clarification prompt when the most recent stored turn of the session names
\* a known drug, because the check sees the augmented query; in a session
\* with no history the same query is answered with the clarification prompt.
C30_ResolutionBeforeClarification ==
    [][ (/\ ChatStep
         /\ HasPronounToken(log_event'.user_message)
         /\ Ambiguous(log_event'.user_message)) =>
            /\ FollowsDrugTurn =>
                   /\ ~Ambiguous(enhanced')
                   /\ response'.assistant_message # ClarificationPrompt
                   /\ ~response'.is_clarification
            /\ PriorHistory(response'.session_id) = << >> =>
                   /\ response'.assistant_message = ClarificationPrompt
                   /\ response'.is_clarification
      ]_vars

\* "dose of it" answered from the records after a turn that named the drugs,
\* in a deployment that had asked for clarification of the same query before
C30_Witness ==
    /\ Answered
    /\ asked = "dose of it"
    /\ enhanced = "dose of it (referring to imatinib)"
    /\ ~response.is_clarification
    /\ metrics.clarifications_asked = 1

(***************************************************************************)
(* Session isolation                                                       *)
(***************************************************************************)
AllIds == SessionIds \cup UuidPool

\* the session table with the history of one session replaced
WithHistory(session_id, history) ==
    [ s \in DOMAIN conversation_history \cup { session_id } |->
        IF s = session_id THEN history ELSE conversation_history[s] ]

\* histories another session could hold instead of its own
OtherHistories ==
    { << >>,
      << Turn("dose of Metformin", "**Metformin**:\n- Dose: 500mg BID", XlsxName) >> }

\* the request of the step, served from the table, can come out as it did
SameOutputs(table) ==
    \E out \in chat_outcomes(table, metrics, doc_chunks, doc_embeddings, excel_chunks,
                             excel_embeddings, response'.session_id,
                             log_event'.user_message, DistProfiles) :
        /\ out.enhanced_query = enhanced'
        /\ out.response = response'
        /\ out.log_event = log_event'

\* C29: sessions are isolated.  A chat turn or a reset on one session leaves
\* the history of every other session unchanged, and the augmented query,
\* reply and citation of a request are the same whatever another session's
\* history holds.
C29_SessionsIsolated ==
    [][ /\ \A session_id \in AllIds :
             (reset_session(session_id) \/ (ChatStep /\ response'.session_id = session_id)) =>
                 \A other \in AllIds \ { session_id } :
                     PriorHistory(other)' = PriorHistory(other)
        /\ ChatStep =>
             \A other \in AllIds \ { response'.session_id }, history \in OtherHistories :
                 SameOutputs(WithHistory(other, history))
      ]_vars

\* "what about it" came back unresolved in a fresh session while the other
\* session's last turn names a drug
C29_Witness ==
    /\ Answered
    /\ asked = "what about it"
    /\ enhanced = asked
    /\ \E other \in DOMAIN conversation_history \ { response.session_id } :
           /\ conversation_history[other] # << >>
           /\ NamedDrugs(conversation_history[other][Len(conversation_history[other])]) # {}

(***************************************************************************)
(* Metrics                                                                 *)
(***************************************************************************)
\* the step is a chat request that was answered: not a reset, and a response
\* was returned
CompletedTurn == ~(\E session_id \in AllIds : reset_session(session_id)) /\ response'.status = 200

RECURSIVE SumOver(_, _)
SumOver(counts, ids) ==
    IF ids = {} THEN 0
    ELSE LET id == CHOOSE id \in ids : TRUE
         IN  counts[id] + SumOver(counts, ids \ { id })

TurnCount(m, session_id) == IF session_id \in DOMAIN m.sessions THEN m.sessions[session_id] ELSE 0

\* what the step added to the three source counters: doc-only, tabular-only, both
SourceBumps ==
    << metrics'.doc_queries - metrics.doc_queries,
       metrics'.excel_queries - metrics.excel_queries,
       metrics'.both_queries - metrics.both_queries >>

\* C24: from empty metrics, every completed turn adds one to the total-turn
\* counter and to its session's turn count, so that the total equals the
\* number of completed turns and the sum of the per-session counts; the
\* distinct-session count is the number of session ids that completed a turn;
\* a turn adds one to exactly one of the doc-only/tabular-only/both counters
\* when its citation is not 'none' and to none of them otherwise; nothing
\* else changes a counter and no counter ever decreases.
C24_MetricsCountTurns ==
    [][ /\ CompletedTurn =>
             /\ metrics'.total_turns = metrics.total_turns + 1
             /\ \A session_id \in AllIds :
                    TurnCount(metrics', session_id) =
                        TurnCount(metrics, session_id)
                            + (IF session_id = response'.session_id THEN 1 ELSE 0)
             /\ DOMAIN metrics'.sessions = DOMAIN metrics.sessions \cup { response'.session_id }
             /\ IF response'.source_citation = "none"
                THEN SourceBumps = << 0, 0, 0 >>
                ELSE SourceBumps \in { << 1, 0, 0 >>, << 0, 1, 0 >>, << 0, 0, 1 >> }
             /\ response'.source_citation = DocxName => SourceBumps = << 1, 0, 0 >>
             /\ response'.source_citation = XlsxName => SourceBumps = << 0, 1, 0 >>
             /\ metrics'.unknown_responses >= metrics.unknown_responses
             /\ metrics'.clarifications_asked >= metrics.clarifications_asked
             /\ metrics'.safety_refusals >= metrics.safety_refusals
        /\ ~CompletedTurn => metrics' = metrics
        /\ metrics'.total_turns = SumOver(metrics'.sessions, DOMAIN metrics'.sessions)
        /\ get_metrics_summary(metrics').total_turns = metrics'.total_turns
        /\ get_metrics_summary(metrics').unique_sessions = Cardinality(DOMAIN metrics'.sessions)
        /\ DOMAIN metrics'.sessions \subseteq AllIds
      ]_vars

\* two sessions, one turn each: one answered from both files, one from one
C24_Witness ==
    /\ metrics.total_turns = 2
    /\ get_metrics_summary(metrics).unique_sessions = 2
    /\ metrics.both_queries = 1
    /\ metrics.doc_queries + metrics.excel_queries = 1

(***************************************************************************)
(* Grounding of the reply                                                  *)
(***************************************************************************)
\* the replies that carry no answer content
StaticReplies ==
    { NoInfoReply, FallbackReply, GreetingReply, ClarificationPrompt,
      MedicalAdviceRefusal, PolicyRefusal }

\* C25: every reply that carries a citation other than 'none' was built from
\* at least one retrieved result that passed both the distance cutoff and the
\* lexical check for the turn's query; a turn in which no result passes
\* returns neither answer content nor a source citation.
C25_CitationNeedsSurvivor ==
    [][ ChatStep =>
            /\ response'.source_citation # "none" =>
                   /\ survivors' > 0
                   /\ survivors' <= response'.retrieved_count
                   /\ Called("_is_relevant")'
            /\ survivors' = 0 =>
                   /\ response'.source_citation = "none"
                   /\ response'.assistant_message \in StaticReplies
      ]_vars

\* a cited answer built from the results that passed the filter, fewer than
\* were retrieved
C25_Witness ==
    /\ Answered
    /\ response.source_citation # "none"
    /\ survivors > 0
    /\ survivors < response.retrieved_count

\* C26: whenever at least one result survives the relevance filter, the
\* synthesizer renders at least one block: the reply is not the static
\* insufficient-grounding fallback and carries a citation.
C26_SurvivorIsRendered ==
    [][ (ChatStep /\ survivors' > 0) =>
            /\ response'.assistant_message # FallbackReply
            /\ response'.source_citation # "none"
      ]_vars

\* the reply holds a drug block of the spreadsheet: the header of one of its drugs
HasExcelBlock(reply) ==
    \E i \in 1..Len(ExcelCorpus) :
        Contains("**" \o DictGet(ExcelCorpus[i].structured_data, "drug_name", "Unknown") \o "**:", reply)

\* the reply holds the block one of the document chunks renders for the query
HasDocBlock(reply, query) ==
    \E i \in 1..Len(DocCorpus) :
        /\ doc_block(DocCorpus[i], query) # <<>>
        /\ Contains(doc_block(DocCorpus[i], query)[1], reply)

\* the sorted, comma-joined names of the contributing sources
CitationOf(has_excel, has_doc) ==
    IF has_excel /\ has_doc THEN XlsxName \o ", " \o DocxName
    ELSE IF has_excel THEN XlsxName
    ELSE IF has_doc THEN DocxName
    ELSE "none"

\* C23: in an answered turn the citation is the sorted, comma-joined set of
\* source names, and a source name appears in it if and only if at least one
\* rendered block of the reply was produced from a surviving result of that
\* source.
C23_CitationNamesRenderedSources ==
    [][ (ChatStep /\ response'.status = 200) =>
            response'.source_citation =
                CitationOf(HasExcelBlock(response'.assistant_message),
                           HasDocBlock(response'.assistant_message, log_event'.user_message))
      ]_vars

(***************************************************************************)
(* The fields of a drug block                                              *)
(***************************************************************************)
StartsWith(s, k) == Prefix(s, Len(k)) = k

\* the drug blocks of a reply, each as its lines: header first
DrugBlocks(reply) ==
    { SplitSep(SplitSep(reply, "\n\n")[i], "\n") :
        i \in { j \in 1..Len(SplitSep(reply, "\n\n")) : HasExcelBlock(SplitSep(reply, "\n\n")[j]) } }

\* none of the four intents is detected in the query
NoIntent(query_lower) ==
    ~(show_dose(query_lower) \/ show_ae(query_lower)
      \/ show_severity(query_lower) \/ show_outcome(query_lower))

\* the line is a field the intents of the query imply
ImpliedField(line, query_lower) ==
    \/ StartsWith(line, "- Dose: ") /\ (show_dose(query_lower) \/ NoIntent(query_lower))
    \/ StartsWith(line, "- Adverse Events: ") /\ (show_ae(query_lower) \/ NoIntent(query_lower))
    \/ StartsWith(line, "- Severity: ") /\ (show_severity(query_lower) \/ NoIntent(query_lower))
    \/ StartsWith(line, "- Outcome: ") /\ show_outcome(query_lower)

\* the block lists every one of dose, adverse events and severity that has a
\* value in the spreadsheet row of its drug
ListsDefaultView(block) ==
    \A i \in 1..Len(ExcelCorpus) :
        block[1] = "**" \o DictGet(ExcelCorpus[i].structured_data, "drug_name", "Unknown") \o "**:" =>
            \A f \in { <<"Dose", "dose">>, <<"Adverse Events", "ae_terms">>, <<"Severity", "severity">> } :
                DictGet(ExcelCorpus[i].structured_data, f[2], "") # "" =>
                    \E n \in 2..Len(block) :
                        block[n] = "- " \o f[1] \o ": " \o DictGet(ExcelCorpus[i].structured_data, f[2], "")

\* the block lists the indication its drug has in the spreadsheet row, if any
ListsIndication(block) ==
    \A i \in 1..Len(ExcelCorpus) :
        (/\ block[1] = "**" \o DictGet(ExcelCorpus[i].structured_data, "drug_name", "Unknown") \o "**:"
         /\ DictGet(ExcelCorpus[i].structured_data, "indication", "") # "") =>
            \E n \in 2..Len(block) :
                block[n] = "- Indication: " \o DictGet(ExcelCorpus[i].structured_data, "indication", "")

\* C27 as stated: each drug block lists only the fields implied by the intents
\* detected in the query (dose, adverse event, severity, outcome).
C27_OnlyImpliedFields ==
    [][ (ChatStep /\ response'.status = 200) =>
            \A block \in DrugBlocks(response'.assistant_message) :
                \A n \in 2..Len(block) : ImpliedField(block[n], Lower(log_event'.user_message))
      ]_vars

\* C27 amended: each drug block lists the indication whenever the rows of its
\* drug hold one and, of dose, adverse events, severity and outcome, only the
\* fields implied by the intents detected in the query; when none of the four
\* intents is detected the block lists dose, adverse events and severity,
\* those that have values, and no outcome.
C27_ImpliedFieldsAfterIndication ==
    [][ (ChatStep /\ response'.status = 200) =>
            \A block \in DrugBlocks(response'.assistant_message) :
                /\ ListsIndication(block)
                /\ \A n \in 2..Len(block) :
                       \/ StartsWith(block[n], "- Indication: ")
                       \/ ImpliedField(block[n], Lower(log_event'.user_message))
                /\ NoIntent(Lower(log_event'.user_message)) => ListsDefaultView(block)
      ]_vars

\* a reply to a dose question whose blocks list indication and dose only,
\* although the rows hold adverse events and severity as well
C27_Witness ==
    /\ Answered
    /\ asked = "dose of Metformin and Imatinib"
    /\ response.assistant_message =
         "**Imatinib**:\n- Indication: CML\n- Dose: 400mg daily\n\n**Metformin**:\n- Indication: Diabetes\n- Dose: 500mg BID"

(***************************************************************************)
(* Nearest-neighbour search                                                *)
(***************************************************************************)
\* the insertion position of a returned chunk in its corpus
Position(chunks, result) == CHOOSE i \in 1..Len(chunks) : chunks[i].content = result.content

\* results are the min(top_k, n) nearest chunks of the corpus, nearest first,
\* equidistant chunks in insertion order, each with its non-negative distance
IsNearest(results, chunks, dists, top_k) ==
    /\ Len(results) = Min(top_k, Len(chunks))
    /\ \A a \in 1..Len(results) :
           /\ \E i \in 1..Len(chunks) : chunks[i].content = results[a].content
           /\ results[a].score = dists[Position(chunks, results[a])]
           /\ results[a].score >= 0
    /\ \A a, b \in 1..Len(results) :
           a < b => \/ results[a].score < results[b].score
                    \/ /\ results[a].score = results[b].score
                       /\ Position(chunks, results[a]) < Position(chunks, results[b])
    /\ \A a \in 1..Len(results), i \in 1..Len(chunks) :
           (\A b \in 1..Len(results) : Position(chunks, results[b]) # i) =>
               results[a].score <= dists[i]

\* C28: search over a corpus of n indexed chunks returns exactly min(k, n)
\* results, those with the smallest squared distances to the query vector, in
\* ascending order of distance, chunks at equal distance in their insertion
\* order; every returned distance is non-negative.
C28_SearchReturnsNearest ==
    probe.op = "search" =>
        /\ (probe.source_preference \in {"doc", "both"} /\ doc_embeddings.present) =>
               IsNearest(probe.result[1], doc_chunks, probe.dists.doc, probe.top_k)
        /\ (probe.source_preference \in {"excel", "both"} /\ excel_embeddings.present) =>
               IsNearest(probe.result[2], excel_chunks, probe.dists.excel, probe.top_k)

(***************************************************************************)
(* The server process: startup and requests in flight                      *)
(***************************************************************************)
\* the messages clients send to one session: two that reach synthesis, one
\* that gets the clarification prompt and a blank one
ServerMessages == { "Hello!", "nivolumab", "what is the dose", "" }

MaxRequests == 7
MaxInFlight == 2

\* the module is imported: retriever, chatbot_engine and chat_logger are None
\* and lifespan has not run
InitServer ==
    /\ conversation_history = << >>
    /\ metrics = EmptyMetrics
    /\ doc_chunks = << >>
    /\ excel_chunks = << >>
    /\ doc_embeddings = NoEmbeddings
    /\ excel_embeddings = NoEmbeddings
    /\ response = [ status |-> 0 ]
    /\ log_event = NotLogged
    /\ calls = << >>
    /\ enhanced = ""
    /\ survivors = 0
    /\ transcript = << >>
    /\ probe = [ op |-> "import", pending |-> [ m \in ServerMessages |-> 0 ],
                 received |-> 0, handled |-> 0 ]

\* lifespan from its first line to its yield, which no await interrupts:
\* build_index on the two loaded corpora (neither is empty), ChatbotEngine()
\* and ChatLogger(), whose metrics are those _load_metrics finds
lifespan ==
    /\ probe.op = "import"
    /\ doc_embeddings' = Embeddings(Len(DocCorpus))
    /\ doc_chunks' = DocCorpus
    /\ excel_embeddings' = Embeddings(Len(ExcelCorpus))
    /\ excel_chunks' = ExcelCorpus
    /\ conversation_history' = << >>
    /\ metrics' \in load_metrics
    /\ probe' = [ probe EXCEPT !.op = "yield" ]
    /\ UNCHANGED << response, log_event, calls, enhanced, survivors, transcript >>

\* a client sends a chat request for the session; nothing in the repository
\* holds it back before lifespan has run
receive(raw_message) ==
    /\ probe.received < MaxRequests
    /\ probe.received - probe.handled < MaxInFlight
    /\ probe' = [ probe EXCEPT !.pending[raw_message] = @ + 1, !.received = @ + 1 ]
    /\ UNCHANGED << served, index >>

\* a server whose components exist from import on: the handler runs on the
\* index as it finds it, built or not
dispatch_ungated(session_id, raw_message) ==
    /\ probe.pending[raw_message] > 0
    /\ probe' = [ probe EXCEPT !.pending[raw_message] = @ - 1, !.handled = @ + 1 ]
    /\ handle(session_id, raw_message, HistBackend, MaxRequests)

\* the event loop runs the handler of one of the requests in flight; before
\* lifespan has reached its yield chatbot_engine is None, and a message that is
\* not blank raises AttributeError at line 124
dispatch(session_id, raw_message) ==
    /\ probe.pending[raw_message] > 0
    /\ probe' = [ probe EXCEPT !.pending[raw_message] = @ - 1, !.handled = @ + 1 ]
    /\ IF probe.op = "yield"
       THEN handle(session_id, raw_message, HistBackend, MaxRequests)
       ELSE /\ response' = IF Strip(raw_message) = ""
                           THEN rejected_outcome(conversation_history, metrics).response
                           ELSE [ status |-> 500 ]
            /\ log_event' = NotLogged
            /\ calls' = << >>
            /\ enhanced' = ""
            /\ survivors' = 0
            /\ UNCHANGED << conversation_history, metrics, transcript, index >>

NextServer ==
    \/ lifespan
    \/ \E raw_message \in ServerMessages : receive(raw_message)
    \/ \E raw_message \in ServerMessages : dispatch("s1", raw_message)

SpecServer == InitServer /\ [][NextServer]_vars

\* both corpora are indexed
IndexComplete ==
    /\ doc_chunks = DocCorpus /\ doc_embeddings = Embeddings(Len(DocCorpus))
    /\ excel_chunks = ExcelCorpus /\ excel_embeddings = Embeddings(Len(ExcelCorpus))

\* C21: no chat request is processed before the index build has completed for
\* both corpora: a request handled before lifespan yields gets no reply from
\* the pipeline and changes nothing, and a search never runs against a
\* partially built index.
C21_NoRequestBeforeIndexBuilt ==
    [][ \A raw_message \in ServerMessages :
            dispatch("s1", raw_message) =>
                /\ Called("search")' => IndexComplete
                /\ response'.status = 200 => (IndexComplete /\ probe.op = "yield")
                /\ probe.op # "yield" =>
                       /\ calls' = << >>
                       /\ UNCHANGED << conversation_history, metrics >>
      ]_vars

\* a request was handled before lifespan had run, with no index built
C21_Witness ==
    /\ probe.op = "import"
    /\ ~doc_embeddings.present /\ ~excel_embeddings.present
    /\ probe.handled > 0
    /\ response.status = 500

\* the last five turns of a list of turns
LastFive(turns) == SubSeq(turns, Len(turns) - Min(Len(turns), 5) + 1, Len(turns))

\* C22: under every interleaving of concurrent chat requests for the same
\* session, the read, append and truncate steps of different requests do not
\* interleave: each request that reaches synthesis contributes exactly one
\* turn behind those already there, a request that does not leaves the
\* history as it is, no turn is lost or duplicated, and the history never has
\* more than 5 turns.
C22_RequestsSerialized ==
    [][ \A raw_message \in ServerMessages :
            dispatch("s1", raw_message) =>
                /\ Len(PriorHistory("s1")') <= 5
                /\ PriorHistory("s1")' =
                     IF Called("_add_to_history")'
                     THEN LastFive(Append(PriorHistory("s1"),
                                          Turn(Strip(raw_message), response'.assistant_message,
                                               response'.source_citation)))
                     ELSE PriorHistory("s1")
      ]_vars

\* six requests reached synthesis, the last handled while another request for
\* the session was in flight, and the history holds the last five turns
C22_Witness ==
    /\ Answered
    /\ probe.op = "yield"
    /\ probe.received - probe.handled = 1
    /\ "s1" \in DOMAIN conversation_history
    /\ Len(transcript["s1"]) = 6
    /\ Len(conversation_history["s1"]) = 5
    /\ conversation_history["s1"][5].user_message = "nivolumab"
    /\ conversation_history["s1"][4].user_message = "Hello!"
====
